---- MODULE Spec2Model ----
(***************************************************************************)
(* A model of the sillybot trading client: the request layer with its      *)
(* rate tracker (request.ts), the market cache, stores and summaries       *)
(* (market.ts), the chunked order executor (trade.ts), the band policy     *)
(* (strategy-dumb.ts), the threshold policy (strategy-smart.ts) and the    *)
(* outer loop (index.ts).                                                  *)
(*                                                                         *)
(* Time is Date.now() in milliseconds, counted from the process start.     *)
(* Every step of the model runs the code from one wait to the next: an     *)
(* action holds one remote call or one sleep at most. Where sendRequest    *)
(* and the market functions are called directly, a remote call is three    *)
(* steps (the call, fetch() settling, the body settling), calls overlap    *)
(* and time passes while fetch() is pending. A remote call of a trade      *)
(* cycle returns at the instant it was issued; the sleeps of the code let  *)
(* time pass.                                                              *)
(***************************************************************************)
EXTENDS Integers, Sequences, FiniteSets, TLC

VARIABLES
    pc,                         \* where the process stands
    clock,                      \* Date.now()
    previousRequestTimestamps,  \* request.ts: one timestamp per request sent
    fetches,                    \* number of calls of fetch() issued so far
    lastSend,                   \* the last direct sendRequest call that ended: response
                                \* and outcome
    lastCount,                  \* the last direct getRequestsInLastMinute call
    lastCall,                   \* the last direct call of another function, with its outcome
    stepsLeft,                  \* direct calls the request-layer driver may still make
    cachedState,                \* market.ts: the in-memory MarketCache
    history,                    \* market.ts: the rows of table history, in insertion order
    tradeTable,                 \* market.ts: the rows of table trade, in insertion order
    syncLocals,                 \* market.ts: the answers to the reads the running
                                \* synchronizeStateAndUpdateHistory has made so far
    pendingRequests,            \* request.ts: the calls of sendRequest that have not
                                \* returned, each awaiting fetch() or the body
    cyclesLeft,                 \* trade cycles the loop may still start
    failuresLeft,               \* failing responses the remote may still give
    startTime,                  \* index.ts: startTime of the running cycle
    currentState,               \* strategy-dumb.ts: the row synchronization returned
    exec,                       \* trade.ts: the locals of the running executeTrade
    trace,                      \* what the running executeTrade did so far, in order
    result,                     \* the TradeResult executeTrade returned last
    raised                      \* the error that left the last cycle, "none" if none did

requestVars == <<previousRequestTimestamps, fetches, lastSend, lastCount, lastCall, stepsLeft>>
marketVars == <<cachedState, history, tradeTable, syncLocals, pendingRequests>>
cycleVars == <<cyclesLeft, failuresLeft, startTime, currentState, exec, trace, result, raised>>

vars == <<pc, clock, requestVars, marketVars, cycleVars>>

----------------------------------------------------------------------------
(* Bounds of the model *)

\* direct calls made by the request-layer driver
MaxApiSteps == 4
\* trade cycles of one run of the loop
MaxCycles == 2
\* failing responses (network, status, body) the remote gives in one run of the loop
MaxFailures == 1
\* failing responses the remote gives in the first cycle taken alone
MaxTradeFailures == 6

----------------------------------------------------------------------------
(* request.ts *)

MAXIMUM_REQUESTS_PER_MINUTE == 570

\* HTTP statuses the remote answers with: 200 (success), 429 (rate limit),
\* 500 (server error).
\* What response.json() / the content-length test make of the body:
\*   "empty"      content-length 0, body = null
\*   "unparsable" response.json() throws
\*   "object"     a JSON object { price: value }
\*   "integer"    the JSON number value
\*   "other"      any other JSON value (an error object, a string, ...)

NoBody == [kind |-> "empty", value |-> 0]

\* What fetch() does: it throws (network failure), or resolves to a response
FetchThrows == [fetch |-> "throws", status |-> 0, body |-> NoBody]

HttpResponse(status, kind, value) ==
    [fetch |-> "resolves", status |-> status, body |-> [kind |-> kind, value |-> value]]

\* response.ok
ResponseOk(resp) == resp.status >= 200 /\ resp.status <= 299

\* sendRequest: the value returned or the error thrown for one response
sendRequest(resp) ==
    IF resp.fetch = "throws"
    THEN [kind |-> "RequestError", body |-> NoBody]
    ELSE IF resp.body.kind = "unparsable"
    THEN [kind |-> "RequestError", body |-> NoBody]
    ELSE IF ~ResponseOk(resp)
    THEN IF resp.status = 429
         THEN [kind |-> "RateLimitError", body |-> NoBody]
         ELSE [kind |-> "RequestError", body |-> NoBody]
    ELSE [kind |-> "ok", body |-> resp.body]

\* a call of sendRequest that has not returned: its caller, the time fetch() was
\* called at, and the response fetch() resolved to (<<>> while fetch() is pending)
PendingRequest(caller, at) == [caller |-> caller, at |-> at, resp |-> <<>>]

\* the call awaits fetch(); the call awaits response.json() or response.body.cancel()
AwaitsFetch(request) == request.resp = <<>>
AwaitsBody(request) == request.resp # <<>>

\* no direct call of sendRequest has ended
NoSend == [called |-> FALSE, resp |-> FetchThrows, kind |-> "none", at |-> 0]

\* a sequence without its i-th element
Without(seq, i) == SubSeq(seq, 1, i - 1) \o SubSeq(seq, i + 1, Len(seq))

\* a sendRequest that saves the request time only when fetch() resolved
saveRequestTimeOnResponse(resp, timestamps, t) ==
    IF resp.fetch = "throws" THEN timestamps ELSE Append(timestamps, t)

\* sendRequest: the finally block after fetch() saves the request time
saveRequestTime(resp, timestamps, t) == Append(timestamps, t)

\* getRequestsInLastMinute: the filter applied to previousRequestTimestamps
filterTimestamps(timestamps, t) ==
    LET oneMinuteAgo == t - 60 * 1000
    IN  SelectSeq(timestamps, LAMBDA timestamp : timestamp < oneMinuteAgo)

\* getRequestsInLastMinute: the number returned
getRequestsInLastMinute(timestamps, t) == Len(filterTimestamps(timestamps, t))

----------------------------------------------------------------------------
(* market.ts *)

MAXIMUM_SHARES_PER_ACTION == 200

\* What the remote may report: share prices, owned share counts, wallet beans
Prices == {40, 100}
OwnedCounts == {0, 3, 474}
WalletBeans == {100, 18000, 450000}

\* the responses the remote may give to an order (the body of a success is ignored)
OrderResponses ==
    {FetchThrows, HttpResponse(200, "empty", 0), HttpResponse(200, "other", 0),
     HttpResponse(200, "unparsable", 0), HttpResponse(429, "other", 0),
     HttpResponse(429, "unparsable", 0), HttpResponse(500, "other", 0)}

\* the responses the remote may give to a read whose well-formed body has kind
\* goodKind and carries one of values
ReadResponses(goodKind, values) ==
    OrderResponses \cup {HttpResponse(200, goodKind, v) : v \in values}

\* a value, or the error thrown in its place ("Error" is an error that is no RequestError)
Fetched(kind, value) == [kind |-> kind, value |-> value]

\* fetchCurrentSharePrice: 'price' in result && isInteger(result.price)
fetchCurrentSharePrice(resp) ==
    LET sent == sendRequest(resp)
    IN  IF sent.kind # "ok" THEN Fetched(sent.kind, 0)
        ELSE IF sent.body.kind = "object" THEN Fetched("ok", sent.body.value)
        ELSE Fetched("Error", 0)

\* fetchCurrentShareOwnedCount: isInteger(result)
fetchCurrentShareOwnedCount(resp) ==
    LET sent == sendRequest(resp)
    IN  IF sent.kind # "ok" THEN Fetched(sent.kind, 0)
        ELSE IF sent.body.kind = "integer" THEN Fetched("ok", sent.body.value)
        ELSE Fetched("Error", 0)

\* fetchCurrentWalletBeans: isInteger(result)
fetchCurrentWalletBeans(resp) ==
    LET sent == sendRequest(resp)
    IN  IF sent.kind # "ok" THEN Fetched(sent.kind, 0)
        ELSE IF sent.body.kind = "integer" THEN Fetched("ok", sent.body.value)
        ELSE Fetched("Error", 0)

\* A slot of the cache is <<>> (null) or <<value>>
EmptyCache ==
    [sharePriceBeans |-> <<>>, shareOwnedCount |-> <<>>, walletBeans |-> <<>>,
     lastSyncTimestamp |-> <<>>]

\* the keys of the cache the cached getters are made for
CacheKeys == {"sharePriceBeans", "shareOwnedCount", "walletBeans"}

\* the fetchValue function the getter of slot key is created with
fetchValue(key, resp) ==
    CASE key = "sharePriceBeans" -> fetchCurrentSharePrice(resp)
      [] key = "shareOwnedCount" -> fetchCurrentShareOwnedCount(resp)
      [] key = "walletBeans" -> fetchCurrentWalletBeans(resp)

\* a test that takes a cached 0 for a missing value (!value)
isMissingOrZero(value) == value = <<>> \/ value = <<0>>

\* createCachedGetterFunction: value == null
isMissing(value) == value = <<>>

\* the getter createCachedGetterFunction(key, fetchValue) returns, called: it
\* returns the slot (kind "ok") or, the slot being null, issues its read and awaits
\* the answer (kind "await")
cachedGetter(key, cache) ==
    LET value == cache[key]
    IN  IF isMissing(value)
        THEN [kind |-> "await", reads |-> 1, returned |-> <<>>, cache |-> cache]
        ELSE [kind |-> "ok", reads |-> 0, returned |-> value, cache |-> cache]

\* the getter of slot key resumed by the answer resp to its read, the cache being
\* what it is by then: the error thrown, or the value written to the slot and returned
resumeCachedGetter(key, cache, resp) ==
    LET fetched == fetchValue(key, resp)
    IN  IF fetched.kind = "ok"
        THEN [kind |-> "ok", returned |-> <<fetched.value>>,
              cache |-> [cache EXCEPT ![key] = <<fetched.value>>]]
        ELSE [kind |-> fetched.kind, returned |-> <<>>, cache |-> cache]

HistoryRow(timestamp, price, owned, wallet) ==
    [timestamp |-> timestamp, sharePriceBeans |-> price, shareOwnedCount |-> owned,
     walletBeans |-> wallet]

TradeRow(timestamp, price, owned, bought, sold, walletOld, walletNew) ==
    [timestamp |-> timestamp, sharePriceBeans |-> price, shareOwnedCount |-> owned,
     shareBoughtCount |-> bought, shareSoldCount |-> sold,
     walletOldBeans |-> walletOld, walletNewBeans |-> walletNew]

\* PRIMARY KEY (timestamp): an insert of a timestamp the table holds throws
HasTimestamp(table, timestamp) == \E i \in 1..Len(table) : table[i].timestamp = timestamp

\* insertHistory(row): the INSERT throws on a timestamp the table holds
insertHistory(rows, row) ==
    IF HasTimestamp(rows, row.timestamp)
    THEN [kind |-> "Error", table |-> rows]
    ELSE [kind |-> "ok", table |-> Append(rows, row)]

\* insertTrade(row): the INSERT throws on a timestamp the table holds
insertTrade(table, row) ==
    IF HasTimestamp(table, row.timestamp)
    THEN [kind |-> "Error", table |-> table]
    ELSE [kind |-> "ok", table |-> Append(table, row)]

\* getLatestHistory: ORDER BY timestamp DESC LIMIT 1, <<>> for null
getLatestHistory(rows) ==
    IF rows = <<>> THEN <<>>
    ELSE LET i == CHOOSE j \in 1..Len(rows) :
                      \A k \in 1..Len(rows) : rows[k].timestamp <= rows[j].timestamp
         IN  <<rows[i]>>

\* a buyShares that leaves the cached state as it was
buySharesStaleCache(shareCount, cache, table, resp, t) ==
    IF shareCount < 0 \/ shareCount > MAXIMUM_SHARES_PER_ACTION
    THEN [kind |-> "Error", sent |-> FALSE, cache |-> cache, table |-> table]
    ELSE IF shareCount * cache.sharePriceBeans[1] > cache.walletBeans[1]
    THEN [kind |-> "Error", sent |-> FALSE, cache |-> cache, table |-> table]
    ELSE IF sendRequest(resp).kind # "ok"
    THEN [kind |-> sendRequest(resp).kind, sent |-> TRUE, cache |-> cache, table |-> table]
    ELSE IF HasTimestamp(table, t)
    THEN [kind |-> "Error", sent |-> TRUE, cache |-> cache, table |-> table]
    ELSE [kind |-> "ok", sent |-> TRUE, cache |-> cache,
          table |-> Append(table,
                           TradeRow(t, cache.sharePriceBeans[1], cache.shareOwnedCount[1],
                                    shareCount, 0, cache.walletBeans[1],
                                    cache.walletBeans[1]))]

\* buyShares(shareCount) at time t, the remote answering the order with resp:
\* the error thrown or "ok", whether the order was sent, the cache and the table after
buyShares(shareCount, cache, table, resp, t) ==
    LET walletOldBeans == cache.walletBeans[1]
        sharePriceBeans == cache.sharePriceBeans[1]
        shareOwnedCount == cache.shareOwnedCount[1]
        sent == sendRequest(resp)
        updated == [cache EXCEPT !.shareOwnedCount = <<shareOwnedCount + shareCount>>,
                                 !.walletBeans = <<walletOldBeans - shareCount * sharePriceBeans>>]
        row == TradeRow(t, sharePriceBeans, shareOwnedCount, shareCount, 0,
                        walletOldBeans, updated.walletBeans[1])
    IN  IF shareCount < 0 \/ shareCount > MAXIMUM_SHARES_PER_ACTION
        THEN [kind |-> "Error", sent |-> FALSE, cache |-> cache, table |-> table]
        ELSE IF shareCount * sharePriceBeans > walletOldBeans
        THEN [kind |-> "Error", sent |-> FALSE, cache |-> cache, table |-> table]
        ELSE IF sent.kind # "ok"
        THEN [kind |-> sent.kind, sent |-> TRUE, cache |-> cache, table |-> table]
        ELSE [kind |-> insertTrade(table, row).kind, sent |-> TRUE, cache |-> updated,
              table |-> insertTrade(table, row).table]

\* a sellShares that stores no trade
sellSharesUnrecorded(shareCount, cache, table, resp, t) ==
    IF shareCount < 0 \/ shareCount > MAXIMUM_SHARES_PER_ACTION
    THEN [kind |-> "Error", sent |-> FALSE, cache |-> cache, table |-> table]
    ELSE IF sendRequest(resp).kind # "ok"
    THEN [kind |-> sendRequest(resp).kind, sent |-> TRUE, cache |-> cache, table |-> table]
    ELSE [kind |-> "ok", sent |-> TRUE,
          cache |-> [cache EXCEPT
                        !.shareOwnedCount = <<cache.shareOwnedCount[1] - shareCount>>,
                        !.walletBeans = <<cache.walletBeans[1]
                                            + shareCount * cache.sharePriceBeans[1]>>],
          table |-> table]

\* sellShares(shareCount) at time t, the remote answering the order with resp
sellShares(shareCount, cache, table, resp, t) ==
    LET walletOldBeans == cache.walletBeans[1]
        shareOwnedCount == cache.shareOwnedCount[1]
        sharePriceBeans == cache.sharePriceBeans[1]
        sent == sendRequest(resp)
        updated == [cache EXCEPT !.shareOwnedCount = <<shareOwnedCount - shareCount>>,
                                 !.walletBeans = <<walletOldBeans + shareCount * sharePriceBeans>>]
        row == TradeRow(t, sharePriceBeans, shareOwnedCount, 0, shareCount,
                        walletOldBeans, updated.walletBeans[1])
    IN  IF shareCount < 0 \/ shareCount > MAXIMUM_SHARES_PER_ACTION
        THEN [kind |-> "Error", sent |-> FALSE, cache |-> cache, table |-> table]
        ELSE IF sent.kind # "ok"
        THEN [kind |-> sent.kind, sent |-> TRUE, cache |-> cache, table |-> table]
        ELSE [kind |-> insertTrade(table, row).kind, sent |-> TRUE, cache |-> updated,
              table |-> insertTrade(table, row).table]

\* a synchronization that leaves lastSyncTimestamp as it was at start, null
synchronizedCacheNoTimestamp(price, owned, wallet, t) ==
    [sharePriceBeans |-> <<price>>, shareOwnedCount |-> <<owned>>, walletBeans |-> <<wallet>>,
     lastSyncTimestamp |-> <<>>]

\* synchronizeStateAndUpdateHistory: the cache after the update of the cached state
synchronizedCache(price, owned, wallet, t) ==
    [sharePriceBeans |-> <<price>>, shareOwnedCount |-> <<owned>>, walletBeans |-> <<wallet>>,
     lastSyncTimestamp |-> <<t>>]

\* a synchronization that appends a row whatever the price
neverSamePrice(rowPrevious, sharePriceBeans) == FALSE

\* synchronizeStateAndUpdateHistory: rowPrevious != null &&
\* rowPrevious.sharePriceBeans === sharePriceBeans
samePrice(rowPrevious, sharePriceBeans) ==
    rowPrevious # <<>> /\ rowPrevious[1].sharePriceBeans = sharePriceBeans

\* a synchronization that empties the cache when one of its reads fails
readFailedInvalidatesCache(kind, reads, cache, rows) ==
    [kind |-> kind, reads |-> reads, cache |-> EmptyCache, history |-> rows, row |-> <<>>]

\* one of the awaited reads threw: the error leaves synchronizeStateAndUpdateHistory
\* at that await, after reads reads, before any statement that writes
readFailed(kind, reads, cache, rows) ==
    [kind |-> kind, reads |-> reads, cache |-> cache, history |-> rows, row |-> <<>>]

\* synchronizeStateAndUpdateHistory at time t, the remote answering the three reads
\* with r1, r2, r3: the error thrown or "ok", the number of reads issued, the cache
\* and the history after, and the row returned
synchronizeStateAndUpdateHistory(cache, rows, r1, r2, r3, t) ==
    LET price == fetchCurrentSharePrice(r1)
        owned == fetchCurrentShareOwnedCount(r2)
        wallet == fetchCurrentWalletBeans(r3)
        updated == synchronizedCache(price.value, owned.value, wallet.value, t)
        rowPrevious == getLatestHistory(rows)
        rowCurrent == HistoryRow(t, price.value, owned.value, wallet.value)
        failed(kind, reads) == readFailed(kind, reads, cache, rows)
    IN  IF price.kind # "ok" THEN failed(price.kind, 1)
        ELSE IF owned.kind # "ok" THEN failed(owned.kind, 2)
        ELSE IF wallet.kind # "ok" THEN failed(wallet.kind, 3)
        ELSE IF samePrice(rowPrevious, price.value)
        THEN [kind |-> "ok", reads |-> 3, cache |-> updated, history |-> rows,
              row |-> rowPrevious]
        ELSE IF insertHistory(rows, rowCurrent).kind # "ok"
        THEN [kind |-> insertHistory(rows, rowCurrent).kind, reads |-> 3, cache |-> updated,
              history |-> rows, row |-> <<>>]
        ELSE [kind |-> "ok", reads |-> 3, cache |-> updated,
              history |-> insertHistory(rows, rowCurrent).table, row |-> <<rowCurrent>>]

\* the reads of synchronizeStateAndUpdateHistory
SYNC_READS == 3

\* synchronizeStateAndUpdateHistory resumed at time t by the answer resp to the
\* read it awaits, answered being the answers to its earlier reads: it awaits its
\* next read (kind "await"), or it ends as synchronizeStateAndUpdateHistory does
resumeSynchronize(cache, rows, answered, resp, t) ==
    LET reads == Append(answered, resp)
        read == CASE Len(reads) = 1 -> fetchCurrentSharePrice(resp)
                  [] Len(reads) = 2 -> fetchCurrentShareOwnedCount(resp)
                  [] OTHER -> fetchCurrentWalletBeans(resp)
    IN  IF read.kind # "ok" THEN readFailed(read.kind, Len(reads), cache, rows)
        ELSE IF Len(reads) < SYNC_READS
        THEN [kind |-> "await", reads |-> Len(reads), cache |-> cache, history |-> rows,
              row |-> <<>>]
        ELSE synchronizeStateAndUpdateHistory(cache, rows, reads[1], reads[2], reads[3], t)

\* Math.min, Math.max
Min(a, b) == IF a < b THEN a ELSE b
Max(a, b) == IF a > b THEN a ELSE b

----------------------------------------------------------------------------
(* The numbers of the code that are no integers are IEEE 754 doubles. A     *)
(* double is kept as sign * mantissa * 2^exponent with a mantissa of 53     *)
(* bits (0 for zero); the mantissa, too large for one integer of the        *)
(* checker, is a sequence of limbs of 15 bits, the lowest first. Every      *)
(* operation computes the exact result and rounds it to the nearest double, *)
(* to the even mantissa on a tie, as the hardware does.                     *)

\* the bits of the mantissa of a double
MantissaBits == 53
\* the bits of a limb, and the number of values of a limb
LimbBits == 15
Limb == 2^LimbBits

\* a natural number without its leading zero limbs
RECURSIVE BigNormal(_)
BigNormal(a) ==
    IF a = <<>> THEN a
    ELSE IF a[Len(a)] = 0 THEN BigNormal(SubSeq(a, 1, Len(a) - 1)) ELSE a

\* the limbs of an integer n >= 0, and the integer of limbs
RECURSIVE BigOf(_)
BigOf(n) == IF n = 0 THEN <<>> ELSE <<n % Limb>> \o BigOf(n \div Limb)
RECURSIVE IntegerOf(_)
IntegerOf(a) == IF a = <<>> THEN 0 ELSE Head(a) + Limb * IntegerOf(Tail(a))

\* a + b + carry
RECURSIVE BigAddCarry(_, _, _)
BigAddCarry(a, b, carry) ==
    IF a = <<>> /\ b = <<>> THEN (IF carry = 0 THEN <<>> ELSE <<carry>>)
    ELSE LET x == (IF a = <<>> THEN 0 ELSE Head(a)) + (IF b = <<>> THEN 0 ELSE Head(b)) + carry
         IN  <<x % Limb>> \o BigAddCarry(IF a = <<>> THEN a ELSE Tail(a),
                                         IF b = <<>> THEN b ELSE Tail(b), x \div Limb)
BigAdd(a, b) == BigAddCarry(a, b, 0)

\* a - b - borrow, for a >= b + borrow
RECURSIVE BigSubBorrow(_, _, _)
BigSubBorrow(a, b, borrow) ==
    IF a = <<>> THEN <<>>
    ELSE LET x == Head(a) - (IF b = <<>> THEN 0 ELSE Head(b)) - borrow
         IN  <<x % Limb>> \o BigSubBorrow(Tail(a), IF b = <<>> THEN b ELSE Tail(b),
                                          IF x < 0 THEN 1 ELSE 0)
BigSub(a, b) == BigNormal(BigSubBorrow(a, b, 0))

\* a < b, the limbs compared from place i downwards
RECURSIVE BigLessFrom(_, _, _)
BigLessFrom(a, b, i) ==
    IF i = 0 THEN FALSE
    ELSE IF a[i] # b[i] THEN a[i] < b[i] ELSE BigLessFrom(a, b, i - 1)
BigLess(a, b) ==
    IF Len(a) # Len(b) THEN Len(a) < Len(b) ELSE BigLessFrom(a, b, Len(a))

\* a * k + carry for a limb k
RECURSIVE BigTimesLimb(_, _, _)
BigTimesLimb(a, k, carry) ==
    IF a = <<>> THEN (IF carry = 0 THEN <<>> ELSE <<carry>>)
    ELSE LET x == Head(a) * k + carry
         IN  <<x % Limb>> \o BigTimesLimb(Tail(a), k, x \div Limb)

\* a * Limb^n
BigShiftLimbs(a, n) == IF a = <<>> THEN a ELSE [i \in 1..n |-> 0] \o a

\* a * b
RECURSIVE BigTimes(_, _)
BigTimes(a, b) ==
    IF a = <<>> \/ b = <<>> THEN <<>>
    ELSE BigAdd(BigNormal(BigTimesLimb(a, Head(b), 0)),
                BigShiftLimbs(BigTimes(a, Tail(b)), 1))

\* the quotient and the remainder of a by d, 0 < d <= Limb, the limbs of a divided
\* from place i downwards with the remainder rem of the places above
RECURSIVE BigDivideFrom(_, _, _, _)
BigDivideFrom(a, i, rem, d) ==
    IF i = 0 THEN [q |-> <<>>, r |-> rem]
    ELSE LET x == rem * Limb + a[i]
             below == BigDivideFrom(a, i - 1, x % d, d)
         IN  [q |-> Append(below.q, x \div d), r |-> below.r]
NormalQuotient(divided) == [q |-> BigNormal(divided.q), r |-> divided.r]
BigDivide(a, d) == NormalQuotient(BigDivideFrom(a, Len(a), 0, d))

\* a * 2^k
BigShiftLeft(a, k) ==
    BigShiftLimbs(BigNormal(BigTimesLimb(a, 2^(k % LimbBits), 0)), k \div LimbBits)

\* a shifted right by k bits: the quotient a div 2^k, and whether a bit that is 1
\* was shifted out, be it with the limbs dropped or within the limbs kept
WithSticky(kept, dropped) == [q |-> kept.q, sticky |-> kept.r # 0 \/ dropped]
ShiftedRight(a, limbs, bits) ==
    WithSticky(BigDivide(SubSeq(a, limbs + 1, Len(a)), 2^bits),
               \E i \in 1..limbs : a[i] # 0)
BigShiftRight(a, k) == ShiftedRight(a, Min(k \div LimbBits, Len(a)), k % LimbBits)

\* the number of bits of a limb, and of a
RECURSIVE LimbLength(_)
LimbLength(n) == IF n = 0 THEN 0 ELSE 1 + LimbLength(n \div 2)
BigLength(a) == IF a = <<>> THEN 0 ELSE LimbBits * (Len(a) - 1) + LimbLength(a[Len(a)])

BigOdd(a) == a # <<>> /\ a[1] % 2 = 1

\* the double sign * mantissa * 2^exponent
Double(sign, mantissa, exponent) == [sign |-> sign, mantissa |-> mantissa, exponent |-> exponent]
DoubleZero == Double(1, <<>>, 0)

\* NaN, the quotient 0 / 0
DoubleNaN == Double(0, <<>>, 0)

\* the double nearest to sign * (a + rest) * 2^exponent, where 0 <= rest < 1 and
\* inexact says that rest is not 0 (a then has more bits than a mantissa). A
\* mantissa rounded up to one bit more is halved (RoundCarried); the mantissa
\* floor is rounded up when the bit cut off last is 1 (half) and either a bit cut
\* off before it is 1 (sticky) or floor is odd (RoundUp); shifted holds the
\* mantissa and the bit after it (RoundHalf); a has excess bits too many
\* (RoundExcess)
RoundCarried(sign, rounded, exponent) ==
    IF BigLength(rounded) > MantissaBits
    THEN Double(sign, BigShiftRight(rounded, 1).q, exponent + 1)
    ELSE Double(sign, rounded, exponent)
RoundUp(sign, floor, exponent, half, sticky) ==
    RoundCarried(sign,
                 IF half /\ (sticky \/ BigOdd(floor)) THEN BigAdd(floor, <<1>>) ELSE floor,
                 exponent)
RoundHalf(sign, shifted, exponent, inexact) ==
    RoundUp(sign, BigShiftRight(shifted.q, 1).q, exponent, BigOdd(shifted.q),
            shifted.sticky \/ inexact)
RoundExcess(sign, a, exponent, inexact, excess) ==
    IF excess <= 0 THEN Double(sign, BigShiftLeft(a, - excess), exponent + excess)
    ELSE RoundHalf(sign, BigShiftRight(a, excess - 1), exponent + excess, inexact)
RoundToDouble(sign, a, exponent, inexact) ==
    IF a = <<>> THEN DoubleZero
    ELSE RoundExcess(sign, a, exponent, inexact, BigLength(a) - MantissaBits)

\* the double of an integer n
DoubleOf(n) == RoundToDouble(IF n < 0 THEN -1 ELSE 1, BigOf(IF n < 0 THEN -n ELSE n), 0, FALSE)

\* x + y exactly: no double but its sign, a mantissa of any length, its exponent;
\* a and b are the mantissas at the lower exponent of the two
AlignedSum(signOfA, a, signOfB, b, exponent) ==
    IF signOfA = signOfB THEN Double(signOfA, BigAdd(a, b), exponent)
    ELSE IF BigLess(a, b) THEN Double(signOfB, BigSub(b, a), exponent)
    ELSE Double(signOfA, BigSub(a, b), exponent)
DoubleSum(x, y) ==
    IF x.mantissa = <<>> THEN y
    ELSE IF y.mantissa = <<>> THEN x
    ELSE AlignedSum(x.sign,
                    BigShiftLeft(x.mantissa, x.exponent - Min(x.exponent, y.exponent)),
                    y.sign,
                    BigShiftLeft(y.mantissa, y.exponent - Min(x.exponent, y.exponent)),
                    Min(x.exponent, y.exponent))

\* x + y of two doubles: a double far below the last bit of the other one does not
\* change it, otherwise the exact sum is rounded
Rounded(sum) == RoundToDouble(sum.sign, sum.mantissa, sum.exponent, FALSE)
DoubleAdd(x, y) ==
    IF x = DoubleNaN \/ y = DoubleNaN THEN DoubleNaN
    ELSE IF x.mantissa = <<>> THEN y
    ELSE IF y.mantissa = <<>> THEN x
    ELSE IF x.exponent - y.exponent > MantissaBits + 2 THEN x
    ELSE IF y.exponent - x.exponent > MantissaBits + 2 THEN y
    ELSE Rounded(DoubleSum(x, y))

\* x - y
DoubleSubtract(x, y) == DoubleAdd(x, Double(- y.sign, y.mantissa, y.exponent))

\* x * y
DoubleTimes(x, y) ==
    RoundToDouble(x.sign * y.sign, BigTimes(x.mantissa, y.mantissa),
                  x.exponent + y.exponent, FALSE)

\* x / d for an integer 0 <= d <= Limb: the quotient of the mantissa, two limbs
\* longer, and its remainder; by 0 only 0 is divided
RoundQuotient(sign, divided, exponent) ==
    RoundToDouble(sign, divided.q, exponent, divided.r # 0)
DoubleDivide(x, d) ==
    IF d = 0 \/ x = DoubleNaN THEN DoubleNaN
    ELSE RoundQuotient(x.sign, BigDivide(BigShiftLimbs(x.mantissa, 2), d),
                       x.exponent - 2 * LimbBits)

\* the largest r with r * r <= a: the root of a is built bit by bit, bit being the
\* power of 4 that is tried, root the root so far (times bit) and rest what is left
\* of a
RECURSIVE BigRootFrom(_, _, _)
BigRootFrom(rest, root, bit) ==
    IF bit = <<>> THEN [root |-> root, exact |-> rest = <<>>]
    ELSE LET trial == BigAdd(root, bit)
             halved == BigShiftRight(root, 1).q
             next == BigShiftRight(bit, 2).q
         IN  IF BigLess(rest, trial)
             THEN BigRootFrom(rest, halved, next)
             ELSE BigRootFrom(BigSub(rest, trial), BigAdd(halved, bit), next)
TopBit(length) == IF length % 2 = 0 THEN length - 2 ELSE length - 1
BigRoot(a) == BigRootFrom(a, <<>>, BigShiftLeft(<<1>>, TopBit(BigLength(a))))

\* Math.sqrt(x) for x >= 0: the mantissa is shifted to more than twice the bits of a
\* mantissa, by a number of bits (shift) that leaves an even exponent
RoundRoot(root, exponent) == RoundToDouble(1, root.root, exponent, ~root.exact)
RootOf(x, shift) ==
    RoundRoot(BigRoot(BigShiftLeft(x.mantissa, shift)), (x.exponent - shift) \div 2)
DoubleSqrt(x) ==
    IF x.mantissa = <<>> THEN x
    ELSE RootOf(x, MantissaBits + 2 + ((x.exponent + MantissaBits) % 2))

\* x < y
IsNegative(difference) == difference.mantissa # <<>> /\ difference.sign = -1
DoubleLess(x, y) == IsNegative(DoubleSubtract(x, y))

\* Math.floor(x), an integer
FloorOf(sign, shifted) ==
    IF sign = 1 THEN IntegerOf(shifted.q)
    ELSE IF shifted.sticky THEN - IntegerOf(shifted.q) - 1 ELSE - IntegerOf(shifted.q)
DoubleFloor(x) ==
    IF x.exponent >= 0 THEN x.sign * IntegerOf(BigShiftLeft(x.mantissa, x.exponent))
    ELSE FloorOf(x.sign, BigShiftRight(x.mantissa, - x.exponent))

\* Math.floor(count * fraction) for an integer count >= 0, fraction being the double
\* of the decimal percent / 100: the amounts count * 0.95 and
\* maxAffordableBasedOnBeans * TRADE_FRACTION made integers
FractionOf(count, percent) ==
    DoubleFloor(DoubleTimes(DoubleOf(count), DoubleDivide(DoubleOf(percent), 100)))

----------------------------------------------------------------------------
(* part_001: the summaries of the history *)

RECURSIVE SumOf(_)
SumOf(numbers) == IF numbers = <<>> THEN 0 ELSE Head(numbers) + SumOf(Tail(numbers))

\* Math.min(...prices), Math.max(...prices)
MinOf(numbers) == CHOOSE n \in {numbers[i] : i \in 1..Len(numbers)} :
                      \A i \in 1..Len(numbers) : n <= numbers[i]
MaxOf(numbers) == CHOOSE n \in {numbers[i] : i \in 1..Len(numbers)} :
                      \A i \in 1..Len(numbers) : n >= numbers[i]

\* numbers.reduce((sum, value) => sum + Math.pow(value - avg, 2), 0): the squares
\* added one by one from the first number on, every step rounded
RECURSIVE SquaredDeviations(_, _)
SquaredDeviations(numbers, avg) ==
    IF numbers = <<>> THEN DoubleZero
    ELSE LET deviation == DoubleSubtract(DoubleOf(numbers[Len(numbers)]), avg)
         IN  DoubleAdd(SquaredDeviations(SubSeq(numbers, 1, Len(numbers) - 1), avg),
                       DoubleTimes(deviation, deviation))

\* a standard deviation that is computed for a single number too
tooFewOnlyIfNone(count) == count < 1

\* calculateStdDev: count < 2
tooFew(count) == count < 2

\* calculateStdDev(numbers, avg): the square root of the sample variance
calculateStdDev(numbers, avg) ==
    LET count == Len(numbers)
    IN  IF tooFew(count) THEN DoubleZero
        ELSE DoubleSqrt(DoubleDivide(SquaredDeviations(numbers, avg), count - 1))

\* a query whose period excludes its end
inPeriodExclusive(timestamp, periodStart, periodEnd) ==
    timestamp >= periodStart /\ timestamp < periodEnd

\* querySelectPricesInPeriod: timestamp >= $start AND timestamp <= $end
inPeriod(timestamp, periodStart, periodEnd) ==
    timestamp >= periodStart /\ timestamp <= periodEnd

\* ORDER BY timestamp ASC: the rows by their timestamps, the primary key of the
\* table, in whatever order they were inserted
RECURSIVE orderByTimestamp(_)
orderByTimestamp(rows) ==
    IF rows = <<>> THEN rows
    ELSE LET first == CHOOSE i \in 1..Len(rows) :
                          \A j \in 1..Len(rows) : rows[i].timestamp <= rows[j].timestamp
         IN  <<rows[first]>> \o orderByTimestamp(SubSeq(rows, 1, first - 1)
                                                  \o SubSeq(rows, first + 1, Len(rows)))

\* querySelectPricesInPeriod.all(...).map(row => row.sharePriceBeans)
pricesInPeriod(rows, periodStart, periodEnd) ==
    LET priceRows == orderByTimestamp(
                         SelectSeq(rows, LAMBDA row : inPeriod(row.timestamp, periodStart,
                                                               periodEnd)))
    IN  [i \in 1..Len(priceRows) |-> priceRows[i].sharePriceBeans]

\* compileMarketSummary(periodStart, periodEnd) over the rows of table history
compileMarketSummary(rows, periodStart, periodEnd) ==
    LET prices == pricesInPeriod(rows, periodStart, periodEnd)
        entryCount == Len(prices)
        avgSharePriceBeans == DoubleDivide(DoubleOf(SumOf(prices)), entryCount)
    IN  IF entryCount > 0
        THEN [periodStart |-> periodStart, periodEnd |-> periodEnd,
              entryCount |-> entryCount,
              minSharePriceBeans |-> MinOf(prices),
              maxSharePriceBeans |-> MaxOf(prices),
              avgSharePriceBeans |-> avgSharePriceBeans,
              stdDevSharePriceBeans |-> calculateStdDev(prices, avgSharePriceBeans)]
        ELSE [periodStart |-> periodStart, periodEnd |-> periodEnd,
              entryCount |-> 0,
              minSharePriceBeans |-> 0,
              maxSharePriceBeans |-> 0,
              avgSharePriceBeans |-> DoubleZero,
              stdDevSharePriceBeans |-> DoubleZero]

----------------------------------------------------------------------------
(* strategy-smart.ts: the threshold policy *)

K_FACTOR == 1
MIN_STD_DEV_THRESHOLD_DIFF == 5

\* calculateThresholds: baselineStdDev < 1
usesFixedSpread(summary) == DoubleLess(summary.stdDevSharePriceBeans, DoubleOf(1))

\* a threshold that is clamped to 0 instead of 1
clampBuyThresholdAtZero(buyThreshold) == Max(0, buyThreshold)

\* calculateThresholds: Math.max(1, buyThreshold)
clampBuyThreshold(buyThreshold) == Max(1, buyThreshold)

\* a validity test that accepts equal thresholds
thresholdsValidIfEqual(buyThreshold, sellThreshold) == buyThreshold <= sellThreshold

\* calculateThresholds: buyThreshold >= sellThreshold is invalid
thresholdsValid(buyThreshold, sellThreshold) == ~(buyThreshold >= sellThreshold)

\* calculateThresholds(summary)
calculateThresholds(summary) ==
    LET baselineAvg == summary.avgSharePriceBeans
        baselineStdDev == summary.stdDevSharePriceBeans
        buyThreshold ==
            clampBuyThreshold(
                IF usesFixedSpread(summary)
                THEN DoubleFloor(DoubleSubtract(baselineAvg,
                                                DoubleOf(MIN_STD_DEV_THRESHOLD_DIFF)))
                ELSE DoubleFloor(DoubleSubtract(baselineAvg,
                                                DoubleTimes(DoubleOf(K_FACTOR),
                                                            baselineStdDev))))
        sellThreshold ==
            IF usesFixedSpread(summary)
            THEN DoubleFloor(DoubleAdd(baselineAvg, DoubleOf(MIN_STD_DEV_THRESHOLD_DIFF)))
            ELSE DoubleFloor(DoubleAdd(baselineAvg,
                                       DoubleTimes(DoubleOf(K_FACTOR), baselineStdDev)))
    IN  [buyThreshold |-> buyThreshold, sellThreshold |-> sellThreshold,
         isValid |-> thresholdsValid(buyThreshold, sellThreshold)]

\* compileMarketCurrentSummaries: the summaries of the last hour, 12 hours, day and
\* week before nowTime
compileMarketCurrentSummaries(rows, nowTime) ==
    LET duration1h == 60 * 60 * 1000
        duration12h == 12 * duration1h
        duration1d == 24 * duration1h
        duration1w == 7 * duration1d
    IN  [summaryLast1h |-> compileMarketSummary(rows, nowTime - duration1h, nowTime),
         summaryLast12h |-> compileMarketSummary(rows, nowTime - duration12h, nowTime),
         summaryLast1d |-> compileMarketSummary(rows, nowTime - duration1d, nowTime),
         summaryLast1w |-> compileMarketSummary(rows, nowTime - duration1w, nowTime)]

MIN_DATA_POINTS_FOR_LOOKBACK == 12
MINIMUM_BEAN_RESERVE == 180
MINIMUM_SHARE_RESERVE == 3
\* TRADE_FRACTION = 0.75, in percent
TRADE_FRACTION_PERCENT == 75

\* clamp(value, min, max)
clamp(value, min, max) == Max(min, Min(value, max))

\* a count of affordable shares that spends the reserve too
maxAffordableIgnoringReserve(walletBeans, currentPrice) == walletBeans \div currentPrice

\* Math.floor((walletBeans - MINIMUM_BEAN_RESERVE) / currentPrice), currentPrice > 0
maxAffordableBasedOnBeans(walletBeans, currentPrice) ==
    (walletBeans - MINIMUM_BEAN_RESERVE) \div currentPrice

\* ownedShares - MINIMUM_SHARE_RESERVE
maxSellableBasedOnReserve(ownedShares) == ownedShares - MINIMUM_SHARE_RESERVE

\* a desired amount that is not clamped between 1 and count
desiredAmountUnclamped(count) == FractionOf(count, TRADE_FRACTION_PERCENT)

\* Math.floor(count * TRADE_FRACTION) clamped between 1 and count, for count > 0
sharesToTrade(count) == clamp(FractionOf(count, TRADE_FRACTION_PERCENT), 1, count)

\* a decision making that goes on to the sell condition when nothing can be bought
thresholdDecisionFallsThrough(currentPrice, ownedShares, walletBeans, buyThreshold, sellThreshold) ==
    IF currentPrice < buyThreshold
          /\ (walletBeans - MINIMUM_BEAN_RESERVE) \div currentPrice > 0
    THEN [actionType |-> "buy",
          shareCount |-> sharesToTrade((walletBeans - MINIMUM_BEAN_RESERVE) \div currentPrice)]
    ELSE IF ownedShares - MINIMUM_SHARE_RESERVE > 0
    THEN [actionType |-> "sell",
          shareCount |-> sharesToTrade(ownedShares - MINIMUM_SHARE_RESERVE)]
    ELSE [actionType |-> "hold", shareCount |-> 0]

\* performTradeCycleSmart, decision making: actionType and totalSharesToTrade
thresholdDecision(currentPrice, ownedShares, walletBeans, buyThreshold, sellThreshold) ==
    IF currentPrice < buyThreshold
    THEN LET maxAffordable == maxAffordableBasedOnBeans(walletBeans, currentPrice)
         IN  IF maxAffordable <= 0 THEN [actionType |-> "hold", shareCount |-> 0]
             ELSE IF sharesToTrade(maxAffordable) > 0
             THEN [actionType |-> "buy", shareCount |-> sharesToTrade(maxAffordable)]
             ELSE [actionType |-> "hold", shareCount |-> sharesToTrade(maxAffordable)]
    ELSE IF currentPrice > sellThreshold
    THEN LET maxSellable == maxSellableBasedOnReserve(ownedShares)
         IN  IF maxSellable <= 0 THEN [actionType |-> "hold", shareCount |-> 0]
             ELSE IF sharesToTrade(maxSellable) > 0
             THEN [actionType |-> "sell", shareCount |-> sharesToTrade(maxSellable)]
             ELSE [actionType |-> "hold", shareCount |-> sharesToTrade(maxSellable)]
    ELSE [actionType |-> "hold", shareCount |-> 0]

----------------------------------------------------------------------------
(* The earlier file of the threshold policy (part_000), which differs from  *)
(* strategy-smart.ts in its reserves and its trade fraction.               *)

MINIMUM_BEAN_RESERVE_000 == 300
MINIMUM_SHARE_RESERVE_000 == 10
\* TRADE_FRACTION = 0.15, in percent
TRADE_FRACTION_PERCENT_000 == 15

\* Math.floor((walletBeans - MINIMUM_BEAN_RESERVE) / currentPrice), currentPrice > 0
maxAffordableBasedOnBeans_000(walletBeans, currentPrice) ==
    (walletBeans - MINIMUM_BEAN_RESERVE_000) \div currentPrice

\* ownedShares - MINIMUM_SHARE_RESERVE
maxSellableBasedOnReserve_000(ownedShares) == ownedShares - MINIMUM_SHARE_RESERVE_000

\* Math.floor(count * TRADE_FRACTION) clamped between 1 and count, for count > 0
sharesToTrade_000(count) == clamp(FractionOf(count, TRADE_FRACTION_PERCENT_000), 1, count)

\* performTradeCycle of the earlier file, decision making
thresholdDecision_000(currentPrice, ownedShares, walletBeans, buyThreshold, sellThreshold) ==
    IF currentPrice < buyThreshold
    THEN LET maxAffordable == maxAffordableBasedOnBeans_000(walletBeans, currentPrice)
         IN  IF maxAffordable <= 0 THEN [actionType |-> "hold", shareCount |-> 0]
             ELSE IF sharesToTrade_000(maxAffordable) > 0
             THEN [actionType |-> "buy", shareCount |-> sharesToTrade_000(maxAffordable)]
             ELSE [actionType |-> "hold", shareCount |-> sharesToTrade_000(maxAffordable)]
    ELSE IF currentPrice > sellThreshold
    THEN LET maxSellable == maxSellableBasedOnReserve_000(ownedShares)
         IN  IF maxSellable <= 0 THEN [actionType |-> "hold", shareCount |-> 0]
             ELSE IF sharesToTrade_000(maxSellable) > 0
             THEN [actionType |-> "sell", shareCount |-> sharesToTrade_000(maxSellable)]
             ELSE [actionType |-> "hold", shareCount |-> sharesToTrade_000(maxSellable)]
    ELSE [actionType |-> "hold", shareCount |-> 0]

----------------------------------------------------------------------------
(* strategy-dumb.ts: the band policy *)

Decision(actionType, shareCount) == [actionType |-> actionType, shareCount |-> shareCount]

\* createTradeDecision
createTradeDecision(actionType, shareCount) ==
    IF shareCount <= 0 THEN Decision("hold", 0) ELSE Decision(actionType, shareCount)

\* decideNextTrade(currentPrice, shareCount, walletBeans)
decideNextTrade(currentPrice, shareCount, walletBeans) ==
    LET maximumShareCount == walletBeans \div currentPrice
    IN  IF shareCount > 0 /\ currentPrice <= 40
        THEN createTradeDecision("buy", FractionOf(shareCount, 95))
        ELSE IF shareCount > 0 /\ currentPrice <= 65
        THEN createTradeDecision("buy", FractionOf(shareCount, 80))
        ELSE IF shareCount > 0 /\ currentPrice <= 80
        THEN createTradeDecision("buy", FractionOf(shareCount, 50))
        ELSE IF shareCount > 0 /\ currentPrice <= 95
        THEN createTradeDecision("buy", FractionOf(shareCount, 25))
        ELSE IF shareCount > 0 /\ currentPrice <= 100
        THEN createTradeDecision("buy", FractionOf(shareCount, 5))
        ELSE IF maximumShareCount > 0 /\ currentPrice >= 100
        THEN createTradeDecision("sell", FractionOf(maximumShareCount, 10))
        ELSE IF maximumShareCount > 0 /\ currentPrice >= 110
        THEN createTradeDecision("sell", FractionOf(maximumShareCount, 25))
        ELSE IF maximumShareCount > 0 /\ currentPrice >= 120
        THEN createTradeDecision("sell", FractionOf(maximumShareCount, 70))
        ELSE IF maximumShareCount > 0 /\ currentPrice >= 130
        THEN createTradeDecision("sell", FractionOf(maximumShareCount, 80))
        ELSE IF maximumShareCount > 0 /\ currentPrice >= 140
        THEN createTradeDecision("sell", FractionOf(maximumShareCount, 95))
        ELSE IF maximumShareCount > 0 /\ currentPrice >= 150
        THEN createTradeDecision("sell", FractionOf(maximumShareCount, 99))
        ELSE createTradeDecision("hold", 0)

----------------------------------------------------------------------------
(* trade.ts *)

INITIAL_BACKOFF_MS == 30 * 1000
MAX_BACKOFF_MS == 5 * 60 * 1000
PROACTIVE_RATE_LIMIT_DELAY_MS == 1000
PROACTIVE_RATE_LIMIT_THRESHOLD == 5
\* the delay between two chunks
CHUNK_DELAY_MS == 50

\* the size of the next chunk
chunkSize(remainingShares) == Min(remainingShares, MAXIMUM_SHARES_PER_ACTION)

\* a backoff that doubles without the ceiling
nextBackoffUncapped(currentBackoff) == currentBackoff * 2

\* the backoff delay after one more rate-limit failure
nextBackoff(currentBackoff) == Min(currentBackoff * 2, MAX_BACKOFF_MS)

\* a loop that pauses only once the limit itself is reached
nearingRateLimitAtLimitOnly(requestsLastMinute) ==
    requestsLastMinute >= MAXIMUM_REQUESTS_PER_MINUTE

\* the proactive rate limit check at the head of an iteration
nearingRateLimit(requestsLastMinute) ==
    requestsLastMinute >= MAXIMUM_REQUESTS_PER_MINUTE - PROACTIVE_RATE_LIMIT_THRESHOLD

\* a loop that goes on while remainingShares is not negative
loopContinuesAtZero(locals) == locals.remainingShares >= 0

\* the condition of the loop of executeTrade
loopContinues(locals) == locals.remainingShares > 0

\* the locals of executeTrade on entry
ExecStart(actionType, totalShares, initialPrice) ==
    [actionType |-> actionType, totalShares |-> totalShares, initialPrice |-> initialPrice,
     remainingShares |-> totalShares, currentBackoff |-> INITIAL_BACKOFF_MS,
     tradeCompleted |-> FALSE]

NoExec == ExecStart("none", 0, 0)

\* one thing executeTrade did, with remainingShares as it stood then (rem): a sleep
\* of n ms (ev "proactive", "backoff", "chunk_delay"), an order of n shares (ev
\* "order") or a read of the price returning n (ev "price_read"), with its outcome
Event(ev, locals, n, out) ==
    [ev |-> ev, act |-> locals.actionType, rem |-> locals.remainingShares, n |-> n,
     out |-> out]

\* a loop that treats every RequestError as a rate limit
chunkOutcomeBacksOffAll(kind) ==
    CASE kind = "ok" -> "done"
      [] kind \in {"RateLimitError", "RequestError"} -> "backoff"
      [] OTHER -> "throw"

\* the branch the loop takes on the outcome of a chunk: RateLimitError is tested
\* first, it is a RequestError too
chunkOutcome(kind) ==
    CASE kind = "ok" -> "done"
      [] kind = "RateLimitError" -> "backoff"
      [] kind = "RequestError" -> "break"
      [] OTHER -> "throw"

\* a loop that counts every successful chunk as a full one
chunkDoneCountsFullChunk(locals, size) ==
    [locals EXCEPT !.remainingShares = locals.remainingShares - MAXIMUM_SHARES_PER_ACTION,
                   !.currentBackoff = INITIAL_BACKOFF_MS]

\* the locals after a chunk of size shares succeeded
chunkDone(locals, size) ==
    [locals EXCEPT !.remainingShares = locals.remainingShares - size,
                   !.currentBackoff = INITIAL_BACKOFF_MS]

\* a rate-limit branch that also counts the failed chunk as traded
rateLimitedDropsChunk(locals) ==
    [locals EXCEPT !.currentBackoff = Min(locals.currentBackoff * 2, MAX_BACKOFF_MS),
                   !.remainingShares =
                       locals.remainingShares
                           - Min(locals.remainingShares, MAXIMUM_SHARES_PER_ACTION)]

\* the locals after the backoff sleep of a rate-limited chunk
rateLimited(locals) ==
    [locals EXCEPT !.currentBackoff = nextBackoff(locals.currentBackoff)]

\* a price check that never sees the price move
priceNeverMoved(newPrice, initialPrice) == FALSE

\* newPrice !== initialPrice
priceMoved(newPrice, initialPrice) == newPrice # initialPrice

\* a price check that retries the chunk when the read of the price failed
recheckOutcomeRetriesFailedRead(kind, newPrice, initialPrice) ==
    IF kind = "ok" /\ priceMoved(newPrice, initialPrice) THEN "abort" ELSE "retry"

\* what the loop does after the read of the price that follows a backoff: the chunk
\* is retried at an unchanged price, a changed price and any error of the read
\* leave the loop
recheckOutcome(kind, newPrice, initialPrice) ==
    IF kind = "ok" /\ ~priceMoved(newPrice, initialPrice) THEN "retry" ELSE "abort"

\* an end of loop that reports every trade as completed
finishTradeAlwaysCompleted(locals) == [locals EXCEPT !.tradeCompleted = TRUE]

\* the locals after the loop: remainingShares === 0 sets tradeCompleted
finishTrade(locals) ==
    IF locals.remainingShares = 0 THEN [locals EXCEPT !.tradeCompleted = TRUE] ELSE locals

NoResult ==
    [returned |-> FALSE, actionType |-> "none", totalShares |-> 0, remainingShares |-> 0,
     initialPrice |-> 0, finalPrice |-> 0, tradeCompleted |-> FALSE]

\* the TradeResult built after the loop
TradeResult(locals, cache) ==
    [returned |-> TRUE, actionType |-> locals.actionType, totalShares |-> locals.totalShares,
     remainingShares |-> locals.remainingShares, initialPrice |-> locals.initialPrice,
     finalPrice |-> cache.sharePriceBeans[1],
     tradeCompleted |-> locals.tradeCompleted]

\* the request times saved by issuing n requests at time t
RECURSIVE saveRequestTimes(_, _, _)
saveRequestTimes(resps, timestamps, t) ==
    IF resps = <<>> THEN timestamps
    ELSE saveRequestTimes(Tail(resps), saveRequestTime(Head(resps), timestamps, t), t)

----------------------------------------------------------------------------
(* index.ts and performTradeCycle of strategy-dumb.ts *)

TRADE_CYCLE_INTERVAL == 10 * 60 * 1000
\* the sleep of performTradeCycle after a rate limit during synchronization
SYNC_RATE_LIMIT_DELAY_MS == 60 * 1000
\* the least sleep between two cycles
MINIMUM_CYCLE_SLEEP_MS == 100

\* no direct call was made yet
NoCall == [op |-> "none"]

Init ==
    /\ pc = "cycle"
    /\ clock = 0
    /\ previousRequestTimestamps = <<>>
    /\ fetches = 0
    /\ lastSend = NoSend
    /\ lastCount = [called |-> FALSE, at |-> 0, before |-> <<>>, after |-> <<>>, returned |-> 0]
    /\ lastCall = NoCall
    /\ stepsLeft = 0
    /\ cachedState = EmptyCache
    /\ history = <<>>
    /\ tradeTable = <<>>
    /\ syncLocals = <<>>
    /\ pendingRequests = <<>>
    /\ cyclesLeft = MaxCycles
    /\ failuresLeft = MaxFailures
    /\ startTime = 0
    /\ currentState = <<>>
    /\ exec = NoExec
    /\ trace = <<>>
    /\ result = NoResult
    /\ raised = "none"

\* the first cycle of a fresh process, the remote failing up to MaxTradeFailures times
InitTrade ==
    /\ pc = "cycle"
    /\ clock = 0
    /\ previousRequestTimestamps = <<>>
    /\ fetches = 0
    /\ lastSend = NoSend
    /\ lastCount = [called |-> FALSE, at |-> 0, before |-> <<>>, after |-> <<>>, returned |-> 0]
    /\ lastCall = NoCall
    /\ stepsLeft = 0
    /\ cachedState = EmptyCache
    /\ history = <<>>
    /\ tradeTable = <<>>
    /\ syncLocals = <<>>
    /\ pendingRequests = <<>>
    /\ cyclesLeft = 1
    /\ failuresLeft = MaxTradeFailures
    /\ startTime = 0
    /\ currentState = <<>>
    /\ exec = NoExec
    /\ trace = <<>>
    /\ result = NoResult
    /\ raised = "none"

\* a loop that goes on after a RateLimitError only
loopCatchesRateLimitOnly(kind) == kind = "RateLimitError"

\* runTradingLoop: the errors of a cycle after which the loop goes on
loopCatches(kind) == kind \in {"RateLimitError", "RequestError"}

\* the attempts of the synchronization loop of performTradeCycle
SYNC_ATTEMPTS == 3

\* a synchronization loop that goes to its next attempt after a rate limit
syncAttemptOutcomeRetries(kind) ==
    CASE kind = "ok" -> "break"
      [] kind = "RateLimitError" -> "retry"
      [] OTHER -> "throw"

\* how an attempt of the synchronization loop ends: a success breaks out of the
\* loop, a RateLimitError sleeps and returns from the cycle, any other error is
\* thrown again; no outcome goes on to the next attempt ("retry")
syncAttemptOutcome(kind) ==
    CASE kind = "ok" -> "break"
      [] kind = "RateLimitError" -> "return"
      [] OTHER -> "throw"

\* what an attempt of the synchronization loop leaves in lastCall
SyncAttempt(attempt, kind) == [op |-> "performTradeCycle", attempt |-> attempt, kind |-> kind]

\* the answers the remote may give to the n-th read of a synchronization
SyncResponses(n) ==
    CASE n = 1 -> ReadResponses("object", Prices)
      [] n = 2 -> ReadResponses("integer", OwnedCounts)
      [] OTHER -> ReadResponses("integer", WalletBeans)

\* performTradeCycle: one read of its synchronization, the read that opens the
\* cycle or the next read of the synchronization under way, and what follows the
\* answer up to the next wait
Synchronize ==
    /\ \/ pc = "cycle" /\ cyclesLeft > 0
       \/ pc \in {"sync_retry", "sync_read"}
    /\ \E resp \in SyncResponses(Len(syncLocals) + 1) :
        LET sync == resumeSynchronize(cachedState, history, syncLocals, resp, clock)
            attempt == CASE pc = "cycle" -> 1
                         [] pc = "sync_retry" -> lastCall.attempt + 1
                         [] OTHER -> lastCall.attempt
            outcome == IF sync.kind = "await" THEN "await" ELSE syncAttemptOutcome(sync.kind)
        IN  /\ (sync.kind \notin {"ok", "await"}) => (failuresLeft > 0)
            /\ failuresLeft' = IF sync.kind \in {"ok", "await"}
                               THEN failuresLeft ELSE failuresLeft - 1
            /\ previousRequestTimestamps' =
                   saveRequestTime(resp, previousRequestTimestamps, clock)
            /\ fetches' = fetches + 1
            /\ syncLocals' = IF sync.kind = "await" THEN Append(syncLocals, resp) ELSE <<>>
            /\ cachedState' = sync.cache
            /\ history' = sync.history
            /\ currentState' = sync.row
            /\ lastCall' = SyncAttempt(attempt, sync.kind)
            /\ raised' = IF outcome = "throw" THEN sync.kind ELSE "none"
            /\ pc' = CASE outcome = "await" -> "sync_read"
                       [] outcome = "break" -> "decide"
                       [] outcome = "return" -> "sync_sleep"
                       [] outcome = "retry" /\ attempt < SYNC_ATTEMPTS -> "sync_retry"
                       [] outcome = "retry" -> "cycle_end"
                       [] loopCatches(sync.kind) -> "cycle_end"
                       [] OTHER -> "exited"
    /\ startTime' = IF pc = "cycle" THEN clock ELSE startTime
    /\ cyclesLeft' = IF pc = "cycle" THEN cyclesLeft - 1 ELSE cyclesLeft
    /\ exec' = NoExec
    /\ trace' = <<>>
    /\ result' = NoResult
    /\ UNCHANGED <<clock, lastSend, lastCount, stepsLeft, tradeTable, pendingRequests>>

\* performTradeCycle: the sleep that follows a rate limit during synchronization,
\* after which the cycle returns
SyncSleep ==
    /\ pc = "sync_sleep"
    /\ clock' = clock + SYNC_RATE_LIMIT_DELAY_MS
    /\ pc' = "cycle_end"
    /\ UNCHANGED <<requestVars, marketVars, cycleVars>>

\* performTradeCycle, from the decision to the entry of executeTrade
Decide ==
    /\ pc = "decide"
    /\ \E decision \in {decideNextTrade(currentState[1].sharePriceBeans,
                                         currentState[1].shareOwnedCount,
                                         currentState[1].walletBeans)} :
       LET row == currentState[1]
       IN  IF decision.actionType = "hold"
           THEN /\ pc' = "cycle_end"
                /\ exec' = exec
           ELSE /\ pc' = "trade_loop"
                /\ exec' = ExecStart(decision.actionType, decision.shareCount,
                                     row.sharePriceBeans)
    /\ UNCHANGED <<clock, requestVars, marketVars, cyclesLeft, failuresLeft, startTime,
                   currentState, trace, result, raised>>

\* executeTrade: the head of an iteration up to its first wait. When the rate limit
\* is near that wait is the proactive pause; otherwise, and after the pause, it is
\* the order of the chunk, with what follows its answer up to the next wait
TradeChunk ==
    /\ \/ pc = "trade_loop" /\ loopContinues(exec)
       \/ pc = "trade_order"
    /\ \E resp \in OrderResponses :
        LET requestsLastMinute == getRequestsInLastMinute(previousRequestTimestamps, clock)
            counted == IF pc = "trade_loop"
                       THEN filterTimestamps(previousRequestTimestamps, clock)
                       ELSE previousRequestTimestamps
            size == chunkSize(exec.remainingShares)
            order == IF exec.actionType = "buy"
                     THEN buyShares(size, cachedState, tradeTable, resp, clock)
                     ELSE sellShares(size, cachedState, tradeTable, resp, clock)
            ordered == IF order.sent THEN <<Event("order", exec, size, order.kind)>> ELSE <<>>
            branch == chunkOutcome(order.kind)
            done == chunkDone(exec, size)
            more == done.remainingShares > 0
        IN  IF pc = "trade_loop" /\ nearingRateLimit(requestsLastMinute)
            THEN /\ previousRequestTimestamps' = counted
                 /\ clock' = clock + PROACTIVE_RATE_LIMIT_DELAY_MS
                 /\ trace' = Append(trace, Event("proactive", exec,
                                                 PROACTIVE_RATE_LIMIT_DELAY_MS, "ok"))
                 /\ pc' = "trade_order"
                 /\ UNCHANGED <<failuresLeft, fetches, cachedState, tradeTable, exec, raised>>
            ELSE /\ (order.sent /\ order.kind # "ok") => failuresLeft > 0
                 /\ failuresLeft' = IF order.sent /\ order.kind # "ok"
                                    THEN failuresLeft - 1 ELSE failuresLeft
                 /\ previousRequestTimestamps' =
                        IF order.sent THEN saveRequestTime(resp, counted, clock) ELSE counted
                 /\ fetches' = IF order.sent THEN fetches + 1 ELSE fetches
                 /\ cachedState' = order.cache
                 /\ tradeTable' = order.table
                 /\ exec' = IF branch = "done" THEN done ELSE exec
                 /\ trace' = trace \o ordered
                 /\ pc' = CASE branch = "done" /\ more -> "trade_delay"
                            [] branch = "done" -> "trade_loop"
                            [] branch = "backoff" -> "trade_backoff"
                            [] branch = "break" -> "trade_return"
                            [] OTHER -> "exited"
                 /\ raised' = IF branch = "throw" THEN order.kind ELSE raised
                 /\ clock' = clock
    /\ UNCHANGED <<lastSend, lastCount, lastCall, stepsLeft, history, syncLocals,
                   pendingRequests, cyclesLeft, startTime, currentState, result>>

\* executeTrade: the sleep that follows an order: the delay between two chunks, or
\* the backoff of a rate-limited chunk, after which the backoff is doubled
TradeSleep ==
    /\ pc \in {"trade_delay", "trade_backoff"}
    /\ IF pc = "trade_delay"
       THEN /\ clock' = clock + CHUNK_DELAY_MS
            /\ trace' = Append(trace, Event("chunk_delay", exec, CHUNK_DELAY_MS, "ok"))
            /\ exec' = exec
            /\ pc' = "trade_loop"
       ELSE /\ clock' = clock + exec.currentBackoff
            /\ trace' = Append(trace, Event("backoff", exec, exec.currentBackoff, "ok"))
            /\ exec' = rateLimited(exec)
            /\ pc' = "trade_recheck"
    /\ UNCHANGED <<requestVars, marketVars, cyclesLeft, failuresLeft, startTime,
                   currentState, result, raised>>

\* executeTrade: the price read after a rate-limit backoff and what follows from it
TradeRecheck ==
    /\ pc = "trade_recheck"
    /\ \E resp \in ReadResponses("object", Prices) :
        LET newPrice == fetchCurrentSharePrice(resp)
        IN  /\ (newPrice.kind # "ok") => failuresLeft > 0
            /\ failuresLeft' = IF newPrice.kind # "ok" THEN failuresLeft - 1 ELSE failuresLeft
            /\ previousRequestTimestamps' =
                   saveRequestTime(resp, previousRequestTimestamps, clock)
            /\ trace' = Append(trace, Event("price_read", exec, newPrice.value, newPrice.kind))
            /\ pc' = IF recheckOutcome(newPrice.kind, newPrice.value, exec.initialPrice) = "retry"
                     THEN "trade_loop" ELSE "trade_return"
    /\ fetches' = fetches + 1
    /\ UNCHANGED <<clock, lastSend, lastCount, lastCall, stepsLeft, marketVars, cyclesLeft,
                   startTime,
                   currentState, exec, result, raised>>

\* executeTrade: the loop is left (remainingShares is 0, or a break), the result is
\* built and returned to performTradeCycle, which returns
TradeReturn ==
    /\ \/ pc = "trade_return"
       \/ pc = "trade_loop" /\ ~loopContinues(exec)
    /\ exec' = finishTrade(exec)
    /\ result' = TradeResult(exec', cachedState)
    /\ pc' = "cycle_end"
    /\ UNCHANGED <<clock, requestVars, marketVars, cyclesLeft, failuresLeft, startTime,
                   currentState, trace, raised>>

\* a loop that starts the next cycle at once
sleepSecondsNone(elapsedSeconds) == 0

\* runTradingLoop: Math.max(100, TRADE_CYCLE_INTERVAL - elapsedSeconds)
sleepSeconds(elapsedSeconds) ==
    Max(MINIMUM_CYCLE_SLEEP_MS, TRADE_CYCLE_INTERVAL - elapsedSeconds)

\* runTradingLoop: the sleep between two cycles
LoopSleep ==
    /\ pc = "cycle_end"
    /\ LET elapsedSeconds == clock - startTime
       IN  clock' = clock + sleepSeconds(elapsedSeconds)
    /\ pc' = "cycle"
    /\ UNCHANGED <<requestVars, marketVars, cycleVars>>

Next ==
    \/ Synchronize
    \/ SyncSleep
    \/ Decide
    \/ TradeChunk
    \/ TradeSleep
    \/ TradeRecheck
    \/ TradeReturn
    \/ LoopSleep

Spec == Init /\ [][Next]_vars

SpecTrade == InitTrade /\ [][Next]_vars

\* a cycle in which every remote call and every sleep of executeTrade returns: an
\* iteration that can be taken is taken, the read of the price after a backoff
\* completes, and the result is built once the loop is left; the remote fails
\* a bounded number of times
SpecTradeFair ==
    /\ InitTrade
    /\ [][Next]_vars
    /\ WF_vars(TradeChunk)
    /\ WF_vars(TradeSleep)
    /\ WF_vars(TradeRecheck)
    /\ WF_vars(TradeReturn)

\* a fresh process that runs a cycle and the cycle that follows it
InitLoop ==
    /\ pc = "cycle"
    /\ clock = 0
    /\ previousRequestTimestamps = <<>>
    /\ fetches = 0
    /\ lastSend = NoSend
    /\ lastCount = [called |-> FALSE, at |-> 0, before |-> <<>>, after |-> <<>>, returned |-> 0]
    /\ lastCall = NoCall
    /\ stepsLeft = 0
    /\ cachedState = EmptyCache
    /\ history = <<>>
    /\ tradeTable = <<>>
    /\ syncLocals = <<>>
    /\ pendingRequests = <<>>
    /\ cyclesLeft = 2
    /\ failuresLeft = MaxFailures
    /\ startTime = 0
    /\ currentState = <<>>
    /\ exec = NoExec
    /\ trace = <<>>
    /\ result = NoResult
    /\ raised = "none"

SpecLoop == InitLoop /\ [][Next]_vars

\* the request times earlier cycles left in previousRequestTimestamps: the reads of
\* one synchronization per cycle, n requests in all, the last read of each answered
\* by a failure that is a RequestError (the cycle ends, the loop goes on, the cache
\* and the tables stay as they are)
OldRequests(n) == [i \in 1..n |-> ((i - 1) \div 3) * TRADE_CYCLE_INTERVAL]

\* the numbers of earlier requests around the count at which executeTrade pauses
OldRequestCounts ==
    {MAXIMUM_REQUESTS_PER_MINUTE - PROACTIVE_RATE_LIMIT_THRESHOLD - 1,
     MAXIMUM_REQUESTS_PER_MINUTE - PROACTIVE_RATE_LIMIT_THRESHOLD,
     MAXIMUM_REQUESTS_PER_MINUTE - PROACTIVE_RATE_LIMIT_THRESHOLD + 1}

\* a process whose earlier cycles each ended at a failed read of their synchronization,
\* at the start of its next cycle
InitProactive ==
    /\ pc = "cycle"
    /\ \E n \in OldRequestCounts :
        /\ previousRequestTimestamps = OldRequests(n)
        /\ fetches = n
        /\ clock = (((n - 1) \div 3) + 1) * TRADE_CYCLE_INTERVAL
    /\ startTime = clock
    /\ lastSend = NoSend
    /\ lastCount = [called |-> FALSE, at |-> 0, before |-> <<>>, after |-> <<>>, returned |-> 0]
    /\ lastCall = NoCall
    /\ stepsLeft = 0
    /\ cachedState = EmptyCache
    /\ history = <<>>
    /\ tradeTable = <<>>
    /\ syncLocals = <<>>
    /\ pendingRequests = <<>>
    /\ cyclesLeft = 1
    /\ failuresLeft = MaxFailures
    /\ currentState = <<>>
    /\ exec = NoExec
    /\ trace = <<>>
    /\ result = NoResult
    /\ raised = "none"

SpecProactive == InitProactive /\ [][Next]_vars

----------------------------------------------------------------------------
(* performTradeCycleSmart of strategy-smart.ts, called once on a history   *)
(* that earlier cycles have filled.                                        *)

\* what the remote may report to the threshold policy: an owned count at the share
\* reserve, one share above it and far above it; a wallet below the bean reserve,
\* one share above it and far above it
SmartPrices == {4, 40, 50, 60}
SmartOwnedCounts == {3, 4, 474}
SmartWalletBeans == {100, 220, 18000}

\* n prices that go p, q, p, q, ...: a snapshot is stored when the price has changed
RECURSIVE Alternating(_, _, _)
Alternating(p, q, n) == IF n = 0 THEN <<>> ELSE <<p>> \o Alternating(q, p, n - 1)

\* the table holding one snapshot for each price of prices, spacing apart, each
\* stored when the bot owned owned shares and wallet beans
StoredTable(prices, spacing, owned, wallet) ==
    [i \in 1..Len(prices) |-> HistoryRow(i * spacing, prices[i], owned, wallet)]

\* the histories the cycle may find: a price steady within one bean for two hours;
\* a price that swung by two beans; a price that has just dropped; too few
\* snapshots; enough snapshots, too few of them in the last day; a price that was
\* worth nothing or one bean and has just risen to four; a price that has just
\* dropped, its snapshot stored when the bot had 400 beans
SmartTables ==
    {StoredTable(Alternating(50, 51, 12), TRADE_CYCLE_INTERVAL, 4, 220),
     StoredTable(Alternating(49, 51, 12), TRADE_CYCLE_INTERVAL, 4, 220),
     StoredTable(Alternating(50, 51, 11) \o <<40>>, TRADE_CYCLE_INTERVAL, 474, 18000),
     StoredTable(Alternating(50, 51, 5), TRADE_CYCLE_INTERVAL, 4, 220),
     StoredTable(Alternating(50, 51, 12), 18 * TRADE_CYCLE_INTERVAL, 4, 220),
     StoredTable(Alternating(0, 1, 11) \o <<4>>, TRADE_CYCLE_INTERVAL, 4, 220),
     StoredTable(Alternating(50, 51, 11) \o <<40>>, TRADE_CYCLE_INTERVAL, 4, 400)}

InitSmart ==
    /\ pc = "smart_cycle"
    /\ history \in SmartTables
    /\ clock = history[Len(history)].timestamp + TRADE_CYCLE_INTERVAL
    /\ previousRequestTimestamps = <<>>
    /\ fetches = 0
    /\ lastSend = NoSend
    /\ lastCount = [called |-> FALSE, at |-> 0, before |-> <<>>, after |-> <<>>, returned |-> 0]
    /\ lastCall = NoCall
    /\ stepsLeft = 0
    /\ cachedState = EmptyCache
    /\ tradeTable = <<>>
    /\ syncLocals = <<>>
    /\ pendingRequests = <<>>
    /\ cyclesLeft = 1
    /\ failuresLeft = MaxFailures
    /\ startTime = 0
    /\ currentState = <<>>
    /\ exec = NoExec
    /\ trace = <<>>
    /\ result = NoResult
    /\ raised = "none"

\* the answers the remote may give to the n-th read of a synchronization of the
\* threshold policy
SmartResponses(n) ==
    CASE n = 1 -> ReadResponses("object", SmartPrices)
      [] n = 2 -> ReadResponses("integer", SmartOwnedCounts)
      [] OTHER -> ReadResponses("integer", SmartWalletBeans)

\* performTradeCycleSmart: one read of its synchronization and what follows the
\* answer up to the next wait; a RateLimitError ends the cycle, any other error is
\* thrown
SynchronizeSmart ==
    /\ \/ pc = "smart_cycle" /\ cyclesLeft > 0
       \/ pc = "smart_read"
    /\ \E resp \in SmartResponses(Len(syncLocals) + 1) :
        LET sync == resumeSynchronize(cachedState, history, syncLocals, resp, clock)
        IN  /\ (sync.kind \notin {"ok", "await"}) => (failuresLeft > 0)
            /\ failuresLeft' = IF sync.kind \in {"ok", "await"}
                               THEN failuresLeft ELSE failuresLeft - 1
            /\ previousRequestTimestamps' =
                   saveRequestTime(resp, previousRequestTimestamps, clock)
            /\ fetches' = fetches + 1
            /\ syncLocals' = IF sync.kind = "await" THEN Append(syncLocals, resp) ELSE <<>>
            /\ cachedState' = sync.cache
            /\ history' = sync.history
            /\ currentState' = sync.row
            /\ raised' = IF sync.kind \in {"ok", "await", "RateLimitError"}
                         THEN "none" ELSE sync.kind
            /\ pc' = CASE sync.kind = "await" -> "smart_read"
                       [] sync.kind = "ok" -> "smart_decide"
                       [] sync.kind = "RateLimitError" -> "cycle_end"
                       [] OTHER -> "exited"
    /\ startTime' = IF pc = "smart_cycle" THEN clock ELSE startTime
    /\ cyclesLeft' = IF pc = "smart_cycle" THEN cyclesLeft - 1 ELSE cyclesLeft
    /\ exec' = NoExec
    /\ trace' = <<>>
    /\ result' = NoResult
    /\ UNCHANGED <<clock, lastSend, lastCount, lastCall, stepsLeft, tradeTable,
                   pendingRequests>>

\* a test of the lookback summary that any snapshot satisfies
hasAnyData(lookbackSummary) == lookbackSummary.entryCount > 0

\* performTradeCycleSmart: entryCount < MIN_DATA_POINTS_FOR_LOOKBACK ends the cycle
hasEnoughData(lookbackSummary) ==
    ~(lookbackSummary.entryCount < MIN_DATA_POINTS_FOR_LOOKBACK)

\* performTradeCycleSmart, from the lookback summary to the entry of executeTrade
DecideSmart ==
    /\ pc = "smart_decide"
    /\ \E lookbackSummary \in {compileMarketCurrentSummaries(history, clock).summaryLast1d} :
       \E thresholds \in {calculateThresholds(lookbackSummary)} :
       LET row == currentState[1]
           decision == thresholdDecision(row.sharePriceBeans, row.shareOwnedCount,
                                         row.walletBeans, thresholds.buyThreshold,
                                         thresholds.sellThreshold)
           decided == /\ hasEnoughData(lookbackSummary)
                      /\ thresholds.isValid
           trades == /\ decided
                     /\ decision.actionType \in {"buy", "sell"}
                     /\ decision.shareCount > 0
       IN  /\ lastCall' = [op |-> "performTradeCycleSmart",
                           currentPrice |-> row.sharePriceBeans,
                           ownedShares |-> row.shareOwnedCount,
                           walletBeans |-> row.walletBeans,
                           entryCount |-> lookbackSummary.entryCount,
                           decided |-> decided,
                           thresholds |-> IF decided THEN thresholds
                                          ELSE [buyThreshold |-> 0, sellThreshold |-> 0,
                                                isValid |-> FALSE],
                           decision |-> IF decided THEN decision
                                        ELSE [actionType |-> "hold", shareCount |-> 0],
                           executes |-> trades]
           /\ IF trades
              THEN /\ pc' = "trade_loop"
                   /\ exec' = ExecStart(decision.actionType, decision.shareCount,
                                        row.sharePriceBeans)
              ELSE /\ pc' = "cycle_end"
                   /\ exec' = exec
    /\ UNCHANGED <<clock, previousRequestTimestamps, fetches, lastSend, lastCount, stepsLeft,
                   marketVars, cyclesLeft, failuresLeft, startTime, currentState, trace,
                   result, raised>>

NextSmart ==
    \/ SynchronizeSmart
    \/ DecideSmart
    \/ TradeChunk
    \/ TradeSleep
    \/ TradeRecheck
    \/ TradeReturn

SpecSmart == InitSmart /\ [][NextSmart]_vars

\* one cycle of either policy
NextPolicies ==
    \/ Synchronize
    \/ SyncSleep
    \/ Decide
    \/ SynchronizeSmart
    \/ DecideSmart
    \/ TradeChunk
    \/ TradeSleep
    \/ TradeRecheck
    \/ TradeReturn

SpecPolicies == (InitTrade \/ InitSmart) /\ [][NextPolicies]_vars

----------------------------------------------------------------------------
(* The request layer driven directly: sendRequest and                      *)
(* getRequestsInLastMinute called in any order while time passes. A call   *)
(* of sendRequest runs up to its wait for fetch(), then up to its wait for *)
(* the body, then to its end; other calls run between these steps.         *)

\* the responses the remote may give to a direct call: none (fetch() throws), or a
\* status with a body that is empty, does not parse, or parses
ApiResponses == OrderResponses

\* time passing between two direct calls
TimeSteps == {1, 30 * 1000, 60 * 1000}

InitRequest ==
    /\ pc = "request_api"
    /\ clock = 0
    /\ previousRequestTimestamps = <<>>
    /\ fetches = 0
    /\ lastSend = NoSend
    /\ lastCount = [called |-> FALSE, at |-> 0, before |-> <<>>, after |-> <<>>, returned |-> 0]
    /\ lastCall = NoCall
    /\ stepsLeft = MaxApiSteps
    /\ cachedState = EmptyCache
    /\ history = <<>>
    /\ tradeTable = <<>>
    /\ syncLocals = <<>>
    /\ pendingRequests = <<>>
    /\ cyclesLeft = 0
    /\ failuresLeft = 0
    /\ startTime = 0
    /\ currentState = <<>>
    /\ exec = NoExec
    /\ trace = <<>>
    /\ result = NoResult
    /\ raised = "none"

\* one call of sendRequest, up to its wait for fetch()
CallSendRequest ==
    /\ pc = "request_api"
    /\ stepsLeft > 0
    /\ fetches' = fetches + 1
    /\ pendingRequests' = Append(pendingRequests, PendingRequest("sendRequest", clock))
    /\ stepsLeft' = stepsLeft - 1
    /\ UNCHANGED <<pc, clock, previousRequestTimestamps, lastSend, lastCount, lastCall,
                   cachedState, history, tradeTable, syncLocals, cycleVars>>

\* fetch() of a waiting call settles, the remote answering with any response or not
\* at all: the finally block saves the request time; a fetch() that threw ends the
\* call with RequestError, a response makes it wait for its body
SettleFetch ==
    /\ pc = "request_api"
    /\ \E i \in 1..Len(pendingRequests), resp \in ApiResponses :
        /\ AwaitsFetch(pendingRequests[i])
        /\ previousRequestTimestamps' =
               saveRequestTime(resp, previousRequestTimestamps, clock)
        /\ IF resp.fetch = "throws"
           THEN /\ pendingRequests' = Without(pendingRequests, i)
                /\ lastSend' = [called |-> TRUE, resp |-> resp,
                                kind |-> sendRequest(resp).kind, at |-> clock]
           ELSE /\ pendingRequests' = [pendingRequests EXCEPT ![i].resp = <<resp>>]
                /\ lastSend' = lastSend
    /\ UNCHANGED <<pc, clock, fetches, lastCount, lastCall, stepsLeft, cachedState, history,
                   tradeTable, syncLocals, cycleVars>>

\* the body of a waiting call settles: the call throws on a body that does not parse,
\* then on a status that is not ok, or returns the body
ResumeSendRequest ==
    /\ pc = "request_api"
    /\ \E i \in 1..Len(pendingRequests) :
        /\ AwaitsBody(pendingRequests[i])
        /\ pendingRequests' = Without(pendingRequests, i)
        /\ lastSend' = [called |-> TRUE, resp |-> pendingRequests[i].resp[1],
                        kind |-> sendRequest(pendingRequests[i].resp[1]).kind,
                        at |-> clock]
    /\ UNCHANGED <<pc, clock, previousRequestTimestamps, fetches, lastCount, lastCall,
                   stepsLeft, cachedState, history, tradeTable, syncLocals, cycleVars>>

\* one call of getRequestsInLastMinute
CallGetRequestsInLastMinute ==
    /\ pc = "request_api"
    /\ stepsLeft > 0
    /\ previousRequestTimestamps' = filterTimestamps(previousRequestTimestamps, clock)
    /\ lastCount' = [called |-> TRUE, at |-> clock, before |-> previousRequestTimestamps,
                     after |-> previousRequestTimestamps',
                     returned |-> getRequestsInLastMinute(previousRequestTimestamps, clock)]
    /\ stepsLeft' = stepsLeft - 1
    /\ UNCHANGED <<pc, clock, fetches, lastSend, lastCall, marketVars, cycleVars>>

\* time passes
AdvanceTime ==
    /\ pc = "request_api"
    /\ stepsLeft > 0
    /\ \E d \in TimeSteps : clock' = clock + d
    /\ stepsLeft' = stepsLeft - 1
    /\ UNCHANGED <<pc, previousRequestTimestamps, fetches, lastSend, lastCount, lastCall,
                   marketVars,
                   cycleVars>>

NextRequest ==
    \/ CallSendRequest
    \/ SettleFetch
    \/ ResumeSendRequest
    \/ CallGetRequestsInLastMinute
    \/ AdvanceTime

SpecRequest == InitRequest /\ [][NextRequest]_vars

----------------------------------------------------------------------------
(* market.ts driven directly: the cached getters and                       *)
(* synchronizeStateAndUpdateHistory called in any order, a failing read    *)
(* among the answers of the remote. A step runs a caller from one wait to   *)
(* the next: a call runs up to its wait for fetch(); fetch() settling saves *)
(* the request time and leaves the caller waiting for the body, or throws   *)
(* and ends it; the body settling resumes the caller up to its next read or *)
(* to its end. Two callers drive the module, each awaiting its call before  *)
(* it makes its next: one calls synchronizeStateAndUpdateHistory, the other *)
(* the cached getters. The reads of the two settle in any order.            *)

\* direct calls made by the market driver
MaxMarketSteps == 2

\* what the remote may report to the market driver
DriverOwnedCounts == {0, 3}
DriverWalletBeans == {18000}

\* the failing answers the remote may give to a read of the market driver: a network
\* failure, a rate limit, a server error, a body of the wrong shape
DriverFailures ==
    {FetchThrows, HttpResponse(429, "other", 0), HttpResponse(500, "other", 0),
     HttpResponse(200, "other", 0)}

\* the answers the remote may give to the market driver's read of slot key
DriverResponses(key) ==
    DriverFailures \cup
    (CASE key = "sharePriceBeans" -> {HttpResponse(200, "object", v) : v \in Prices}
       [] key = "shareOwnedCount" -> {HttpResponse(200, "integer", v) : v \in DriverOwnedCounts}
       [] key = "walletBeans" -> {HttpResponse(200, "integer", v) : v \in DriverWalletBeans})

\* the slots in the order synchronizeStateAndUpdateHistory reads them
SyncKeys == <<"sharePriceBeans", "shareOwnedCount", "walletBeans">>

\* the time that may pass, counted from the step before, until fetch() of a read in
\* flight settles; fetch() settles after the millisecond it was called in. The body
\* of a response is a few bytes that arrive with its headers: reading it takes no
\* time of its own, while other steps may run, and time pass, before it is read
ReadDelays == {0, 1000}

\* a step of a direct call of market.ts, ending at time at: the step ("call", "fetch"
\* settled or "body" settled), the responses of the reads answered in full so far,
\* the error thrown, "ok" or "await", the value returned (<<>> if none), the cache
\* and the history before and after the step
MarketCall(op, key, step, resps, kind, returned, before, after, rowsBefore, rowsAfter, at) ==
    [op |-> op, key |-> key, step |-> step, resps |-> resps, kind |-> kind,
     returned |-> returned, cacheBefore |-> before, cacheAfter |-> after,
     historyBefore |-> rowsBefore, historyAfter |-> rowsAfter, at |-> at]

\* the tables a starting process may find in market.sqlite: none yet, or the
\* snapshots of two prices an earlier run has stored
MarketTables == {<<>>, StoredTable(<<40, 100>>, TRADE_CYCLE_INTERVAL, 3, 18000)}

InitMarket ==
    /\ pc = "market_api"
    /\ history \in MarketTables
    /\ clock = IF history = <<>> THEN 0
               ELSE history[Len(history)].timestamp + TRADE_CYCLE_INTERVAL
    /\ previousRequestTimestamps = <<>>
    /\ fetches = 0
    /\ lastSend = NoSend
    /\ lastCount = [called |-> FALSE, at |-> 0, before |-> <<>>, after |-> <<>>, returned |-> 0]
    /\ lastCall = NoCall
    /\ stepsLeft = MaxMarketSteps
    /\ cachedState = EmptyCache
    /\ tradeTable = <<>>
    /\ syncLocals = <<>>
    /\ pendingRequests = <<>>
    /\ cyclesLeft = 0
    /\ failuresLeft = MaxFailures
    /\ startTime = 0
    /\ currentState = <<>>
    /\ exec = NoExec
    /\ trace = <<>>
    /\ result = NoResult
    /\ raised = "none"

\* the caller of the getters awaits a getter
GetterRuns == \E i \in 1..Len(pendingRequests) : pendingRequests[i].caller \in CacheKeys

\* one call of getCurrentSharePrice, getCurrentShareOwnedCount or getCurrentWalletBeans,
\* up to its return or to the wait for fetch() of its read
CallCachedGetter ==
    /\ pc \in {"market_api", "market_read"}
    /\ ~GetterRuns
    /\ stepsLeft > 0
    /\ \E key \in CacheKeys :
        LET got == cachedGetter(key, cachedState)
        IN  /\ fetches' = fetches + got.reads
            /\ pendingRequests' = IF got.kind = "await"
                                  THEN Append(pendingRequests, PendingRequest(key, clock))
                                  ELSE pendingRequests
            /\ cachedState' = got.cache
            /\ lastCall' = MarketCall("getter", key, "call", <<>>, got.kind, got.returned,
                                      cachedState, got.cache, history, history, clock)
    /\ stepsLeft' = stepsLeft - 1
    /\ UNCHANGED <<pc, clock, previousRequestTimestamps, lastSend, lastCount, history,
                   tradeTable, syncLocals, cyclesLeft, failuresLeft, startTime,
                   currentState, exec, trace, result, raised>>

\* fetch() of the read of a waiting getter settles: the request time is saved; a
\* fetch() that threw makes the getter throw RequestError, a response makes it wait
\* for the body
SettleGetterFetch ==
    /\ pc \in {"market_api", "market_read"}
    /\ \E i \in 1..Len(pendingRequests) :
        /\ pendingRequests[i].caller \in CacheKeys
        /\ AwaitsFetch(pendingRequests[i])
        /\ \E resp \in DriverResponses(pendingRequests[i].caller), delay \in ReadDelays :
            LET key == pendingRequests[i].caller
                at == clock + delay
                got == resumeCachedGetter(key, cachedState, resp)
            IN  /\ at > pendingRequests[i].at
                /\ (got.kind # "ok") => (failuresLeft > 0)
                /\ failuresLeft' = IF got.kind = "ok" THEN failuresLeft ELSE failuresLeft - 1
                /\ clock' = at
                /\ previousRequestTimestamps' =
                       saveRequestTime(resp, previousRequestTimestamps, at)
                /\ IF resp.fetch = "throws"
                   THEN /\ pendingRequests' = Without(pendingRequests, i)
                        /\ cachedState' = got.cache
                        /\ lastCall' = MarketCall("getter", key, "fetch", <<resp>>, got.kind,
                                                  got.returned, cachedState, got.cache,
                                                  history, history, at)
                   ELSE /\ pendingRequests' = [pendingRequests EXCEPT ![i].resp = <<resp>>]
                        /\ cachedState' = cachedState
                        /\ lastCall' = MarketCall("getter", key, "fetch", <<>>, "await", <<>>,
                                                  cachedState, cachedState, history, history,
                                                  at)
    /\ UNCHANGED <<pc, fetches, lastSend, lastCount, stepsLeft, history, tradeTable,
                   syncLocals, cyclesLeft, startTime, currentState, exec, trace, result,
                   raised>>

\* the body of the read of a waiting getter settles: the getter throws, or writes
\* its slot and returns
ResumeCachedGetter ==
    /\ pc \in {"market_api", "market_read"}
    /\ \E i \in 1..Len(pendingRequests) :
        /\ pendingRequests[i].caller \in CacheKeys
        /\ AwaitsBody(pendingRequests[i])
        /\ LET key == pendingRequests[i].caller
               resp == pendingRequests[i].resp[1]
               at == clock
               got == resumeCachedGetter(key, cachedState, resp)
           IN  /\ pendingRequests' = Without(pendingRequests, i)
               /\ cachedState' = got.cache
               /\ lastCall' = MarketCall("getter", key, "body", <<resp>>, got.kind,
                                         got.returned, cachedState, got.cache, history,
                                         history, at)
    /\ UNCHANGED <<pc, clock, previousRequestTimestamps, fetches, lastSend, lastCount,
                   stepsLeft, history, tradeTable, syncLocals, cycleVars>>

\* a call of synchronizeStateAndUpdateHistory, up to the wait for fetch() of its
\* first read
CallSynchronize ==
    /\ pc = "market_api"
    /\ stepsLeft > 0
    /\ pc' = "market_read"
    /\ stepsLeft' = stepsLeft - 1
    /\ fetches' = fetches + 1
    /\ syncLocals' = <<>>
    /\ pendingRequests' = Append(pendingRequests, PendingRequest("synchronize", clock))
    /\ lastCall' = MarketCall("synchronize", "all", "call", <<>>, "await", <<>>,
                              cachedState, cachedState, history, history, clock)
    /\ UNCHANGED <<clock, previousRequestTimestamps, lastSend, lastCount, cachedState,
                   history, tradeTable, cycleVars>>

\* fetch() of the read the running synchronizeStateAndUpdateHistory awaits settles:
\* the request time is saved; a fetch() that threw makes the synchronization throw
\* RequestError, a response makes it wait for the body
SettleSynchronizeFetch ==
    /\ pc = "market_read"
    /\ \E i \in 1..Len(pendingRequests) :
        /\ pendingRequests[i].caller = "synchronize"
        /\ AwaitsFetch(pendingRequests[i])
        /\ \E resp \in DriverResponses(SyncKeys[Len(syncLocals) + 1]), delay \in ReadDelays :
            LET at == clock + delay
                sync == resumeSynchronize(cachedState, history, syncLocals, resp, at)
            IN  /\ at > pendingRequests[i].at
                /\ (sync.kind \notin {"ok", "await"}) => (failuresLeft > 0)
                /\ failuresLeft' = IF sync.kind \in {"ok", "await"}
                                   THEN failuresLeft ELSE failuresLeft - 1
                /\ clock' = at
                /\ previousRequestTimestamps' =
                       saveRequestTime(resp, previousRequestTimestamps, at)
                /\ IF resp.fetch = "throws"
                   THEN /\ pendingRequests' = Without(pendingRequests, i)
                        /\ syncLocals' = <<>>
                        /\ cachedState' = sync.cache
                        /\ history' = sync.history
                        /\ lastCall' = MarketCall("synchronize", "all", "fetch",
                                                  Append(syncLocals, resp), sync.kind,
                                                  sync.row, cachedState, sync.cache, history,
                                                  sync.history, at)
                        /\ pc' = "market_api"
                   ELSE /\ pendingRequests' = [pendingRequests EXCEPT ![i].resp = <<resp>>]
                        /\ syncLocals' = syncLocals
                        /\ cachedState' = cachedState
                        /\ history' = history
                        /\ lastCall' = MarketCall("synchronize", "all", "fetch", syncLocals,
                                                  "await", <<>>, cachedState, cachedState,
                                                  history, history, at)
                        /\ pc' = pc
    /\ UNCHANGED <<fetches, lastSend, lastCount, stepsLeft, tradeTable, cyclesLeft,
                   startTime, currentState, exec, trace, result, raised>>

\* the body of the read the running synchronizeStateAndUpdateHistory awaits settles:
\* the synchronization throws, issues its next read, or writes the cache and the
\* history and returns
ResumeSynchronize ==
    /\ pc = "market_read"
    /\ \E i \in 1..Len(pendingRequests) :
        /\ pendingRequests[i].caller = "synchronize"
        /\ AwaitsBody(pendingRequests[i])
        /\ LET resp == pendingRequests[i].resp[1]
               at == clock
               sync == resumeSynchronize(cachedState, history, syncLocals, resp, at)
               answered == Append(syncLocals, resp)
           IN  /\ fetches' = IF sync.kind = "await" THEN fetches + 1 ELSE fetches
               /\ syncLocals' = IF sync.kind = "await" THEN answered ELSE <<>>
               /\ pendingRequests' =
                      IF sync.kind = "await"
                      THEN [pendingRequests EXCEPT ![i] = PendingRequest("synchronize", at)]
                      ELSE Without(pendingRequests, i)
               /\ cachedState' = sync.cache
               /\ history' = sync.history
               /\ lastCall' = MarketCall("synchronize", "all", "body", answered, sync.kind,
                                         sync.row, cachedState, sync.cache, history,
                                         sync.history, at)
               /\ pc' = IF sync.kind = "await" THEN "market_read" ELSE "market_api"
    /\ UNCHANGED <<clock, previousRequestTimestamps, lastSend, lastCount, stepsLeft,
                   tradeTable, cycleVars>>

NextMarket ==
    \/ CallCachedGetter
    \/ SettleGetterFetch
    \/ ResumeCachedGetter
    \/ CallSynchronize
    \/ SettleSynchronizeFetch
    \/ ResumeSynchronize

SpecMarket == InitMarket /\ [][NextMarket]_vars

----------------------------------------------------------------------------
(* The exported insertHistory and insertTrade called directly, by a caller  *)
(* other than synchronizeStateAndUpdateHistory, buyShares and sellShares,   *)
(* among the calls of the market driver.                                   *)

\* the timestamps of the rows a direct caller inserts
StoreTimes == {0, TRADE_CYCLE_INTERVAL}

\* the counts of shares bought and sold of the rows a direct caller inserts
StoreBoughtCounts == {0, 5, MAXIMUM_SHARES_PER_ACTION + 1}
StoreSoldCounts == {0, 7}

\* the rows a direct caller passes to insertHistory
StoreHistoryRows ==
    {HistoryRow(t, price, owned, wallet) :
        t \in StoreTimes, price \in Prices, owned \in DriverOwnedCounts,
        wallet \in DriverWalletBeans}

\* the rows a direct caller passes to insertTrade
StoreTradeRows ==
    {TradeRow(t, price, owned, bought, sold, wallet, wallet - bought * price + sold * price) :
        t \in StoreTimes, price \in Prices, owned \in DriverOwnedCounts,
        bought \in StoreBoughtCounts, sold \in StoreSoldCounts,
        wallet \in DriverWalletBeans}

\* what a direct call of insertHistory or insertTrade leaves in lastCall
StoreCall(op, row, kind) == [op |-> op, row |-> row, kind |-> kind]

\* one call insertHistory(row)
CallInsertHistory ==
    /\ pc \in {"market_api", "market_read"}
    /\ stepsLeft > 0
    /\ \E row \in StoreHistoryRows :
        LET inserted == insertHistory(history, row)
        IN  /\ history' = inserted.table
            /\ lastCall' = StoreCall("insertHistory", row, inserted.kind)
    /\ stepsLeft' = stepsLeft - 1
    /\ UNCHANGED <<pc, clock, previousRequestTimestamps, fetches, lastSend, lastCount,
                   cachedState, tradeTable, syncLocals, pendingRequests, cycleVars>>

\* one call insertTrade(row)
CallInsertTrade ==
    /\ pc \in {"market_api", "market_read"}
    /\ stepsLeft > 0
    /\ \E row \in StoreTradeRows :
        LET inserted == insertTrade(tradeTable, row)
        IN  /\ tradeTable' = inserted.table
            /\ lastCall' = StoreCall("insertTrade", row, inserted.kind)
    /\ stepsLeft' = stepsLeft - 1
    /\ UNCHANGED <<pc, clock, previousRequestTimestamps, fetches, lastSend, lastCount,
                   cachedState, history, syncLocals, pendingRequests, cycleVars>>

NextStore == CallInsertHistory \/ CallInsertTrade \/ NextMarket

SpecStore == InitMarket /\ [][NextStore]_vars

----------------------------------------------------------------------------
(* compileMarketSummary and calculateThresholds applied to the tables the  *)
(* history may hold and to the periods around their snapshots.             *)

\* snapshots of a table the summaries are compiled from
MaxSnapshots == 3

\* prices of the snapshots, of any table insertHistory can fill: 0 and 2 for means
\* near the clamp of the buy threshold, 40 and 41 for a deviation below 1
SummaryPrices == {0, 2, 40, 41}

\* the time of the i-th snapshot of a table, one cycle after the one before
SnapshotTime(i) == i * TRADE_CYCLE_INTERVAL

\* the table holding one snapshot for each price of prices
TableOf(prices) == [i \in 1..Len(prices) |-> HistoryRow(SnapshotTime(i), prices[i], 0, 0)]

\* snapshots of a table that was filled while the clock was set back
MaxReversed == 2

\* the table of a clock that was set back between the cycles: the snapshot of the
\* latest time inserted first
Reversed(rows) == [i \in 1..Len(rows) |-> rows[Len(rows) + 1 - i]]

\* prices whose deviation, 1 were nothing rounded, is computed as less
RoundedPrices == <<1, 1, 1, 1, 2, 2, 1, 2, 4>>

SummaryTables ==
    {TableOf(prices) : prices \in UNION {[1..n -> SummaryPrices] : n \in 0..MaxSnapshots}}
        \cup {Reversed(TableOf(prices)) : prices \in [1..MaxReversed -> SummaryPrices]}
        \cup {TableOf(RoundedPrices)}

\* starts and ends of the periods: the times of the snapshots, one before, one after,
\* and the time of the last snapshot of the longest table
PeriodBounds ==
    {SnapshotTime(i) : i \in 0..(MaxSnapshots + 1)} \cup {SnapshotTime(Len(RoundedPrices))}

InitSummary ==
    /\ pc = "summary_api"
    /\ clock = 0
    /\ previousRequestTimestamps = <<>>
    /\ fetches = 0
    /\ lastSend = NoSend
    /\ lastCount = [called |-> FALSE, at |-> 0, before |-> <<>>, after |-> <<>>, returned |-> 0]
    /\ lastCall = NoCall
    /\ stepsLeft = 0
    /\ cachedState = EmptyCache
    /\ history \in SummaryTables
    /\ tradeTable = <<>>
    /\ syncLocals = <<>>
    /\ pendingRequests = <<>>
    /\ cyclesLeft = 0
    /\ failuresLeft = 0
    /\ startTime = 0
    /\ currentState = <<>>
    /\ exec = NoExec
    /\ trace = <<>>
    /\ result = NoResult
    /\ raised = "none"

\* the call of compileMarketSummary(periodStart, periodEnd) on the table drawn, for
\* a period that ends now and started some time before, as every caller asks for
CallCompileMarketSummary ==
    /\ pc = "summary_api"
    /\ lastCall = NoCall
    /\ \E periodStart \in PeriodBounds, periodEnd \in PeriodBounds :
        /\ periodStart <= periodEnd
        /\ lastCall' = [op |-> "compileMarketSummary",
                        summary |-> compileMarketSummary(history, periodStart, periodEnd)]
    /\ UNCHANGED <<pc, clock, previousRequestTimestamps, fetches, lastSend, lastCount,
                   stepsLeft, marketVars, cycleVars>>

\* the call of calculateThresholds on the summary compiled
CallCalculateThresholds ==
    /\ pc = "summary_api"
    /\ lastCall.op = "compileMarketSummary"
    /\ lastCall' = [op |-> "calculateThresholds", summary |-> lastCall.summary,
                    thresholds |-> calculateThresholds(lastCall.summary)]
    /\ UNCHANGED <<pc, clock, previousRequestTimestamps, fetches, lastSend, lastCount,
                   stepsLeft, marketVars, cycleVars>>

NextSummary == CallCompileMarketSummary \/ CallCalculateThresholds

SpecSummary == InitSummary /\ [][NextSummary]_vars

----------------------------------------------------------------------------
(* The band policy driven directly: decideNextTrade applied to one state   *)
(* of the market drawn from every band of the price.                       *)

\* prices on both sides of every limit of the bands of decideNextTrade
BandPrices == {30, 40, 41, 65, 66, 80, 81, 95, 96, 100, 101, 110, 120, 130, 140, 150, 160}
BandOwnedCounts == {0, 3, 474}
BandWalletBeans == {0, 100, 18000, 450000}

\* performTradeCycle of a fresh process after its synchronization has returned: the
\* three reads are answered and their request times saved, the cache is filled, the
\* snapshot is stored, and currentState is the row returned
InitBand ==
    /\ pc = "band_api"
    /\ clock = 0
    /\ lastSend = NoSend
    /\ lastCount = [called |-> FALSE, at |-> 0, before |-> <<>>, after |-> <<>>, returned |-> 0]
    /\ lastCall = NoCall
    /\ stepsLeft = 0
    /\ \E price \in BandPrices, owned \in BandOwnedCounts, wallet \in BandWalletBeans :
        LET reads == <<HttpResponse(200, "object", price), HttpResponse(200, "integer", owned),
                       HttpResponse(200, "integer", wallet)>>
            sync == synchronizeStateAndUpdateHistory(EmptyCache, <<>>, reads[1], reads[2],
                                                     reads[3], clock)
        IN  /\ cachedState = sync.cache
            /\ history = sync.history
            /\ currentState = sync.row
            /\ previousRequestTimestamps = saveRequestTimes(reads, <<>>, clock)
            /\ fetches = Len(reads)
    /\ tradeTable = <<>>
    /\ syncLocals = <<>>
    /\ pendingRequests = <<>>
    /\ cyclesLeft = 0
    /\ failuresLeft = 0
    /\ startTime = 0
    /\ exec = NoExec
    /\ trace = <<>>
    /\ result = NoResult
    /\ raised = "none"

\* the call decideNextTrade(sharePriceBeans, shareOwnedCount, walletBeans) of
\* performTradeCycle
CallDecideNextTrade ==
    /\ pc = "band_api"
    /\ lastCall = NoCall
    /\ LET row == currentState[1]
       IN  lastCall' = [op |-> "decideNextTrade",
                        currentPrice |-> row.sharePriceBeans,
                        shareCount |-> row.shareOwnedCount,
                        walletBeans |-> row.walletBeans,
                        decision |-> decideNextTrade(row.sharePriceBeans,
                                                     row.shareOwnedCount, row.walletBeans)]
    /\ UNCHANGED <<pc, clock, previousRequestTimestamps, fetches, lastSend, lastCount,
                   stepsLeft, marketVars, cycleVars>>

NextBand == CallDecideNextTrade

SpecBand == InitBand /\ [][NextBand]_vars

----------------------------------------------------------------------------
(* The decision making of the threshold policy driven directly, in both    *)
(* files that hold it, on the state a synchronization has left.            *)

ThresholdPrices == {40, 50, 60}
ThresholdOwnedCounts == {3, 4, 11, 474}
ThresholdWalletBeans == {100, 220, 340, 1000, 18000}
\* the histories the cycle may find: twelve snapshots of the last two hours, of a
\* price that went between 60 and 61, or between 40 and 41
ThresholdTables ==
    {StoredTable(Alternating(60, 61, 12), TRADE_CYCLE_INTERVAL, 4, 220),
     StoredTable(Alternating(40, 41, 12), TRADE_CYCLE_INTERVAL, 4, 220)}

\* a cycle of the threshold policy after its synchronization has returned: the
\* three reads are answered and their request times saved, the cache is filled, the
\* snapshot of a changed price is stored after those found, and currentState is the
\* row returned
InitThreshold ==
    /\ pc = "threshold_api"
    /\ lastSend = NoSend
    /\ lastCount = [called |-> FALSE, at |-> 0, before |-> <<>>, after |-> <<>>, returned |-> 0]
    /\ lastCall = NoCall
    /\ stepsLeft = 0
    /\ \E stored \in ThresholdTables, price \in ThresholdPrices,
          owned \in ThresholdOwnedCounts, wallet \in ThresholdWalletBeans :
        LET reads == <<HttpResponse(200, "object", price), HttpResponse(200, "integer", owned),
                       HttpResponse(200, "integer", wallet)>>
            at == stored[Len(stored)].timestamp + TRADE_CYCLE_INTERVAL
            sync == synchronizeStateAndUpdateHistory(EmptyCache, stored, reads[1], reads[2],
                                                     reads[3], at)
        IN  /\ clock = at
            /\ cachedState = sync.cache
            /\ history = sync.history
            /\ currentState = sync.row
            /\ previousRequestTimestamps = saveRequestTimes(reads, <<>>, at)
            /\ fetches = Len(reads)
    /\ tradeTable = <<>>
    /\ syncLocals = <<>>
    /\ pendingRequests = <<>>
    /\ cyclesLeft = 0
    /\ failuresLeft = 0
    /\ startTime = 0
    /\ exec = NoExec
    /\ trace = <<>>
    /\ result = NoResult
    /\ raised = "none"

\* what a call of the decision making leaves in lastCall
ThresholdCall(op, row, thresholds, decision) ==
    [op |-> op, currentPrice |-> row.sharePriceBeans, ownedShares |-> row.shareOwnedCount,
     walletBeans |-> row.walletBeans, buyThreshold |-> thresholds.buyThreshold,
     sellThreshold |-> thresholds.sellThreshold, decision |-> decision]

\* performTradeCycleSmart (strategy-smart.ts) from the lookback summary to its
\* decision, on a summary with data enough and valid thresholds
CallThresholdDecision ==
    /\ pc = "threshold_api"
    /\ lastCall = NoCall
    /\ \E lookbackSummary \in {compileMarketCurrentSummaries(history, clock).summaryLast1d} :
       \E thresholds \in {calculateThresholds(lookbackSummary)} :
        /\ hasEnoughData(lookbackSummary)
        /\ thresholds.isValid
        /\ LET row == currentState[1]
           IN  lastCall' = ThresholdCall("thresholdDecision", row, thresholds,
                               thresholdDecision(row.sharePriceBeans, row.shareOwnedCount,
                                                 row.walletBeans, thresholds.buyThreshold,
                                                 thresholds.sellThreshold))
    /\ UNCHANGED <<pc, clock, previousRequestTimestamps, fetches, lastSend, lastCount,
                   stepsLeft, marketVars, cycleVars>>

\* performTradeCycle of the earlier file (part_000) from the lookback summary to its
\* decision, on a summary with data enough and valid thresholds
CallThresholdDecision_000 ==
    /\ pc = "threshold_api"
    /\ lastCall = NoCall
    /\ \E lookbackSummary \in {compileMarketCurrentSummaries(history, clock).summaryLast1d} :
       \E thresholds \in {calculateThresholds(lookbackSummary)} :
        /\ hasEnoughData(lookbackSummary)
        /\ thresholds.isValid
        /\ LET row == currentState[1]
           IN  lastCall' = ThresholdCall("thresholdDecision_000", row, thresholds,
                               thresholdDecision_000(row.sharePriceBeans, row.shareOwnedCount,
                                                     row.walletBeans, thresholds.buyThreshold,
                                                     thresholds.sellThreshold))
    /\ UNCHANGED <<pc, clock, previousRequestTimestamps, fetches, lastSend, lastCount,
                   stepsLeft, marketVars, cycleVars>>

NextThreshold == CallThresholdDecision \/ CallThresholdDecision_000

SpecThreshold == InitThreshold /\ [][NextThreshold]_vars

----------------------------------------------------------------------------
(* buyShares and sellShares called directly, once, after a synchronization  *)
(* of a fresh process has filled the cache and stored its snapshot.         *)

\* the share counts a caller may pass: below, at and above the limits of the guard
OrderCounts == {-1, 0, 1, MAXIMUM_SHARES_PER_ACTION, MAXIMUM_SHARES_PER_ACTION + 1}

InitOrder ==
    /\ pc = "order_api"
    /\ clock = 0
    /\ lastSend = NoSend
    /\ lastCount = [called |-> FALSE, at |-> 0, before |-> <<>>, after |-> <<>>, returned |-> 0]
    /\ lastCall = NoCall
    /\ stepsLeft = 0
    /\ \E price \in Prices, owned \in OwnedCounts, wallet \in WalletBeans :
        LET reads == <<HttpResponse(200, "object", price), HttpResponse(200, "integer", owned),
                       HttpResponse(200, "integer", wallet)>>
            sync == synchronizeStateAndUpdateHistory(EmptyCache, <<>>, reads[1], reads[2],
                                                     reads[3], clock)
        IN  /\ cachedState = sync.cache
            /\ history = sync.history
            /\ previousRequestTimestamps = saveRequestTimes(reads, <<>>, clock)
            /\ fetches = Len(reads)
    /\ tradeTable = <<>>
    /\ syncLocals = <<>>
    /\ pendingRequests = <<>>
    /\ cyclesLeft = 0
    /\ failuresLeft = 0
    /\ startTime = 0
    /\ currentState = <<>>
    /\ exec = NoExec
    /\ trace = <<>>
    /\ result = NoResult
    /\ raised = "none"

\* what a direct call of buyShares or sellShares leaves in lastCall
OrderCall(op, shareCount, resp, order) ==
    [op |-> op, shareCount |-> shareCount, resp |-> resp, kind |-> order.kind,
     sent |-> order.sent]

\* one call buyShares(shareCount)
CallBuyShares ==
    /\ pc = "order_api"
    /\ lastCall = NoCall
    /\ \E shareCount \in OrderCounts, resp \in OrderResponses :
        LET order == buyShares(shareCount, cachedState, tradeTable, resp, clock)
        IN  /\ previousRequestTimestamps' =
                   IF order.sent THEN saveRequestTime(resp, previousRequestTimestamps, clock)
                   ELSE previousRequestTimestamps
            /\ fetches' = IF order.sent THEN fetches + 1 ELSE fetches
            /\ cachedState' = order.cache
            /\ tradeTable' = order.table
            /\ raised' = IF order.kind = "ok" THEN "none" ELSE order.kind
            /\ lastCall' = OrderCall("buyShares", shareCount, resp, order)
    /\ UNCHANGED <<pc, clock, lastSend, lastCount, stepsLeft, history, syncLocals,
                   pendingRequests, cyclesLeft, failuresLeft, startTime, currentState, exec,
                   trace, result>>

\* one call sellShares(shareCount)
CallSellShares ==
    /\ pc = "order_api"
    /\ lastCall = NoCall
    /\ \E shareCount \in OrderCounts, resp \in OrderResponses :
        LET order == sellShares(shareCount, cachedState, tradeTable, resp, clock)
        IN  /\ previousRequestTimestamps' =
                   IF order.sent THEN saveRequestTime(resp, previousRequestTimestamps, clock)
                   ELSE previousRequestTimestamps
            /\ fetches' = IF order.sent THEN fetches + 1 ELSE fetches
            /\ cachedState' = order.cache
            /\ tradeTable' = order.table
            /\ raised' = IF order.kind = "ok" THEN "none" ELSE order.kind
            /\ lastCall' = OrderCall("sellShares", shareCount, resp, order)
    /\ UNCHANGED <<pc, clock, lastSend, lastCount, stepsLeft, history, syncLocals,
                   pendingRequests, cyclesLeft, failuresLeft, startTime, currentState, exec,
                   trace, result>>

NextOrderCall == CallBuyShares \/ CallSellShares

SpecOrder == InitOrder /\ [][NextOrderCall]_vars

----------------------------------------------------------------------------
(* Properties of executeTrade, read off the trace of the running trade *)

Indices == 1..Len(trace)

IsOrder(e) == e.ev = "order"
IsOkOrder(e) == e.ev = "order" /\ e.out = "ok"

Orders == SelectSeq(trace, IsOrder)
OkOrders == SelectSeq(trace, IsOkOrder)

OrderSizes == [i \in 1..Len(Orders) |-> Orders[i].n]

RECURSIVE SumOfSizes(_)
SumOfSizes(events) == IF events = <<>> THEN 0 ELSE Head(events).n + SumOfSizes(Tail(events))

\* executeTrade was entered in this cycle
TradeStarted == exec.actionType # "none"
\* executeTrade raised: the error left the cycle and the loop
TradeRaised == TradeStarted /\ pc = "exited"
\* executeTrade returned or raised
TradeOver == result.returned \/ TradeRaised
\* executeTrade has left its loop by a break or has returned
TradeLeftLoop == raised = "none" /\ pc \in {"trade_return", "cycle_end", "cycle"}

\* no remote call of the trade failed
AllSuccess == \A i \in Indices : trace[i].out = "ok"

\* the chunks of an order of total shares: 200, ..., 200 and the rest
ExpectedChunks(total) ==
    [i \in 1..((total + MAXIMUM_SHARES_PER_ACTION - 1) \div MAXIMUM_SHARES_PER_ACTION) |->
        IF i * MAXIMUM_SHARES_PER_ACTION <= total
        THEN MAXIMUM_SHARES_PER_ACTION
        ELSE total - (i - 1) * MAXIMUM_SHARES_PER_ACTION]

\* C1 as stated: when no remote call of the trade fails, executeTrade ends having
\* submitted exactly the chunks 200, ..., 200, rest of its total and returns
\* remainingShares = 0 and tradeCompleted = true, for any total. (A buy chunk the
\* cached balance does not cover is refused by buyShares before any remote call, and
\* executeTrade raises.)
C1_AllSuccessCompletes ==
    (TradeOver /\ AllSuccess) =>
        /\ result.returned
        /\ result.remainingShares = 0
        /\ result.tradeCompleted
        /\ OrderSizes = ExpectedChunks(exec.totalShares)

\* the price read after a backoff returned a price other than initialPrice
PriceMovedAt(i) ==
    /\ trace[i].ev = "price_read"
    /\ trace[i].out = "ok"
    /\ trace[i].n # exec.initialPrice

\* C2: once the price read after a rate-limit backoff differs from initialPrice,
\* executeTrade does nothing more (no further order), does not raise, and returns
\* remainingShares > 0, tradeCompleted = false and totalShares - remainingShares equal
\* to the sum of the chunks that succeeded
C2_AbortOnPriceChange ==
    \A i \in Indices :
        PriceMovedAt(i) =>
            /\ i = Len(trace)
            /\ i > 2
            /\ trace[i - 2].ev = "order" /\ trace[i - 2].out = "RateLimitError"
            /\ TradeLeftLoop
            /\ exec.remainingShares > 0
            /\ pc # "trade_return" =>
                   /\ result.returned
                   /\ result.remainingShares > 0
                   /\ ~result.tradeCompleted
                   /\ result.totalShares - result.remainingShares = SumOfSizes(OkOrders)

\* a trade returned after a chunk succeeded, the next was rate limited and the price moved
C2_Witness ==
    /\ result.returned
    /\ \E i \in Indices : PriceMovedAt(i)
    /\ Len(OkOrders) >= 1
    /\ result.remainingShares = result.totalShares - SumOfSizes(OkOrders)

\* j is the first order submitted after the order at i
NextOrder(i, j) ==
    /\ i < j
    /\ trace[i].ev = "order"
    /\ trace[j].ev = "order"
    /\ \A k \in (i + 1)..(j - 1) : trace[k].ev # "order"

\* C3: the order that follows a rate-limited order comes after a price read equal to
\* initialPrice, has the same action and the same size, and remainingShares did not
\* change from the failed order to the retry
C3_RetrySameChunk ==
    \A i \in Indices : \A j \in Indices :
        (NextOrder(i, j) /\ trace[i].out = "RateLimitError") =>
            /\ i + 2 < j
            /\ trace[i + 2].ev = "price_read"
            /\ trace[i + 2].out = "ok"
            /\ trace[i + 2].n = exec.initialPrice
            /\ trace[j].act = trace[i].act
            /\ trace[j].n = trace[i].n
            /\ \A k \in i..j : trace[k].rem = trace[i].rem

\* a rate-limited chunk was retried after an unchanged price and went through
C3_Witness ==
    \E i \in Indices : \E j \in Indices :
        /\ NextOrder(i, j)
        /\ trace[i].out = "RateLimitError"
        /\ trace[j].out = "ok"
        /\ trace[j].n = trace[i].n

\* C4: once an order fails with a RequestError that is no RateLimitError, executeTrade
\* submits nothing more, does not raise, and returns tradeCompleted = false and the
\* remainingShares it had before the failed chunk
C4_AbortOnRequestError ==
    \A i \in Indices :
        (trace[i].ev = "order" /\ trace[i].out = "RequestError") =>
            /\ i = Len(trace)
            /\ TradeLeftLoop
            /\ pc # "trade_return" =>
                   /\ result.returned
                   /\ ~result.tradeCompleted
                   /\ result.remainingShares = trace[i].rem

\* a trade returned after one chunk succeeded and the next failed with a RequestError
C4_Witness ==
    /\ result.returned
    /\ Len(trace) > 0
    /\ trace[Len(trace)].ev = "order"
    /\ trace[Len(trace)].out = "RequestError"
    /\ Len(OkOrders) >= 1
    /\ result.remainingShares = trace[Len(trace)].rem

\* C5 as stated: an error that is neither RateLimitError nor RequestError, raised by a
\* chunk or by the price read after a backoff, leaves executeTrade uncaught: no
\* TradeResult is returned, the error reaches the caller
C5_FatalPropagates ==
    /\ (\E i \in Indices : trace[i].out = "Error") => ~result.returned
    /\ TradeRaised => ~result.returned

\* C6: every TradeResult returned has tradeCompleted = (remainingShares = 0) and
\* 0 <= remainingShares <= totalShares
C6_ResultConsistent ==
    result.returned =>
        /\ result.tradeCompleted = (result.remainingShares = 0)
        /\ 0 <= result.remainingShares
        /\ result.remainingShares <= result.totalShares

\* a partial fill was returned
C6_Witness ==
    /\ result.returned
    /\ 0 < result.remainingShares
    /\ result.remainingShares < result.totalShares
    /\ ~result.tradeCompleted

RECURSIVE Pow2(_)
Pow2(n) == IF n <= 0 THEN 1 ELSE 2 * Pow2(n - 1)

\* the last order before i that succeeded, 0 if none did
LastOkBefore(i) ==
    LET oks == {j \in 1..(i - 1) : IsOkOrder(trace[j])}
    IN  IF oks = {} THEN 0 ELSE CHOOSE j \in oks : \A k \in oks : k <= j

\* the backoff at i is the k-th since the last successful chunk
ConsecutiveRateLimits(i) ==
    Cardinality({j \in (LastOkBefore(i) + 1)..i : trace[j].ev = "backoff"})

\* C7: the k-th consecutive rate-limit failure sleeps min(30 s * 2^(k-1), 300 s), a
\* successful chunk restarts the count, and the backoff stays in [30 s, 300 s]
C7_BackoffSchedule ==
    /\ \A i \in Indices :
           trace[i].ev = "backoff" =>
               trace[i].n = Min(INITIAL_BACKOFF_MS * Pow2(ConsecutiveRateLimits(i) - 1),
                                MAX_BACKOFF_MS)
    /\ TradeStarted =>
           /\ INITIAL_BACKOFF_MS <= exec.currentBackoff
           /\ exec.currentBackoff <= MAX_BACKOFF_MS

\* a chunk was rate limited once and went through, and the next was rate limited five
\* times in a row, the fifth sleep being the ceiling
C7_Witness ==
    \E i \in Indices : \E j \in Indices :
        /\ i < j
        /\ trace[i].ev = "backoff"
        /\ LastOkBefore(j) > i
        /\ trace[j].ev = "backoff"
        /\ ConsecutiveRateLimits(j) = 5
        /\ trace[j].n = MAX_BACKOFF_MS

----------------------------------------------------------------------------
(* Properties of the request layer *)

\* the recorded calls of timestamps that lie within the 60 seconds before t
WithinLastMinute(timestamps, t) ==
    {i \in 1..Len(timestamps) : timestamps[i] >= t - 60 * 1000}

\* C8 as stated: getRequestsInLastMinute returns the number of recorded calls within
\* the trailing 60 seconds and leaves no older entry in the tracker
C8_CountsLastMinute ==
    lastCount.called =>
        /\ lastCount.returned = Cardinality(WithinLastMinute(lastCount.before, lastCount.at))
        /\ \A i \in 1..Len(lastCount.after) :
               lastCount.after[i] >= lastCount.at - 60 * 1000

\* the calls of sendRequest in flight whose fetch() has not settled
FetchesPending(requests) ==
    Cardinality({i \in 1..Len(requests) : AwaitsFetch(requests[i])})

\* fetch() is called in the step in which a call of sendRequest begins and in no
\* other; the step in which the fetch() of a call settles appends one timestamp, the
\* time of that step, and no other step appends any
OneFetchOneTimestamp ==
    /\ fetches' = IF Len(pendingRequests') > Len(pendingRequests)
                  THEN fetches + 1 ELSE fetches
    /\ IF FetchesPending(pendingRequests') < FetchesPending(pendingRequests)
       THEN previousRequestTimestamps' = Append(previousRequestTimestamps, clock')
       ELSE Len(previousRequestTimestamps') <= Len(previousRequestTimestamps)

\* C9: every call of sendRequest issues exactly one fetch() (no retry) and appends
\* exactly one timestamp to the tracker, the time at which its fetch() settled,
\* whether fetch() throws or resolves, whatever the status and the body
C9_OneCallOneTimestamp == [][OneFetchOneTimestamp]_vars

\* the one call made failed at the network level and was recorded once
C9_Witness ==
    /\ lastSend.called
    /\ lastSend.resp.fetch = "throws"
    /\ lastSend.kind = "RequestError"
    /\ fetches = 1
    /\ pendingRequests = <<>>
    /\ previousRequestTimestamps = <<lastSend.at>>

\* C10 as stated: a response with status 429 makes sendRequest fail with
\* RateLimitError, whatever its body
C10_RateLimitStatus ==
    (lastSend.called /\ lastSend.resp.fetch = "resolves" /\ lastSend.resp.status = 429) =>
        lastSend.kind = "RateLimitError"

----------------------------------------------------------------------------
(* Properties of market.ts, read off the last direct call of the market    *)
(* driver and off the cycles of the loop                                   *)

IsMarketCall == lastCall.op \in {"getter", "synchronize"}

\* the last response the last direct call received
LastResponse == lastCall.resps[Len(lastCall.resps)]

\* the value a well-formed response carries
Carried(resp) == resp.body.value

\* C11: a remote read that fails on anything but a rate-limit response (status 429),
\* be it a network failure, a non-2xx status or a malformed or wrongly shaped body,
\* raises a RequestError that is no RateLimitError
C11_ReadFailureIsRequestError ==
    (IsMarketCall /\ lastCall.kind \notin {"ok", "await"} /\ lastCall.resps # <<>>
         /\ LastResponse.status # 429)
        => lastCall.kind = "RequestError"

\* every fetch() issued is pending or has settled and saved its request time
ReadsAccounted ==
    fetches = Len(previousRequestTimestamps) + FetchesPending(pendingRequests)

\* what the step of a getter recorded in lastCall tells: called on a non-null slot it
\* returned the slot; called on a null slot it waits; when fetch() of its one read
\* settles it waits on or throws, and writes nothing; resumed by the body it returned
\* the value fetched, written to its slot and to nothing else
GetterStepRecorded ==
    lastCall.op = "getter" =>
        LET key == lastCall.key
            slot == lastCall.cacheBefore[key]
        IN  /\ lastCall.step = "call" =>
                   /\ lastCall.resps = <<>>
                   /\ lastCall.cacheAfter = lastCall.cacheBefore
                   /\ slot # <<>> => lastCall.kind = "ok" /\ lastCall.returned = slot
                   /\ slot = <<>> => lastCall.kind = "await" /\ lastCall.returned = <<>>
            /\ lastCall.step = "fetch" =>
                   /\ lastCall.kind \in {"await", "RequestError"}
                   /\ lastCall.returned = <<>>
                   /\ lastCall.cacheAfter = lastCall.cacheBefore
            /\ lastCall.step = "body" =>
                   /\ Len(lastCall.resps) = 1
                   /\ lastCall.kind # "await"
                   /\ lastCall.kind = "ok" =>
                          /\ lastCall.returned = <<Carried(lastCall.resps[1])>>
                          /\ lastCall.cacheAfter[key] = lastCall.returned
                   /\ lastCall.kind # "ok" => lastCall.cacheAfter = lastCall.cacheBefore
            /\ \A other \in (CacheKeys \cup {"lastSyncTimestamp"}) \ {key} :
                   lastCall.cacheAfter[other] = lastCall.cacheBefore[other]

\* the step a getter takes: its call issues no read and returns at once on a non-null
\* slot, and issues exactly one read and waits on a null slot; the steps in which
\* fetch() and the body of that read settle issue no read, the first saves the
\* request time, the last ends the wait and leaves the cache recorded
GetterStep ==
    (lastCall'.op = "getter" /\ lastCall' # lastCall) =>
        /\ cachedState' = lastCall'.cacheAfter
        /\ cachedState = lastCall'.cacheBefore
        /\ history' = history
        /\ lastCall'.step = "call" =>
               /\ previousRequestTimestamps' = previousRequestTimestamps
               /\ lastCall'.kind = "ok" =>
                      fetches' = fetches /\ pendingRequests' = pendingRequests
               /\ lastCall'.kind = "await" =>
                      /\ fetches' = fetches + 1
                      /\ pendingRequests' =
                             Append(pendingRequests, PendingRequest(lastCall'.key, clock))
        /\ lastCall'.step = "fetch" =>
               /\ fetches' = fetches
               /\ previousRequestTimestamps' = Append(previousRequestTimestamps, clock')
               /\ \E i \in 1..Len(pendingRequests) :
                      /\ pendingRequests[i].caller = lastCall'.key
                      /\ AwaitsFetch(pendingRequests[i])
                      /\ \/ /\ lastCall'.kind = "await"
                            /\ Len(pendingRequests') = Len(pendingRequests)
                            /\ AwaitsBody(pendingRequests'[i])
                         \/ /\ lastCall'.kind # "await"
                            /\ pendingRequests' = Without(pendingRequests, i)
        /\ lastCall'.step = "body" =>
               /\ fetches' = fetches
               /\ previousRequestTimestamps' = previousRequestTimestamps
               /\ \E i \in 1..Len(pendingRequests) :
                      /\ pendingRequests[i].caller = lastCall'.key
                      /\ AwaitsBody(pendingRequests[i])
                      /\ pendingRequests' = Without(pendingRequests, i)

\* C12: a cached getter called on a non-null slot (0 included) issues no remote call,
\* returns the slot and changes nothing; called on a null slot it issues exactly one
\* remote call, stores the value fetched in its slot, returns it, and leaves the
\* other slots and lastSyncTimestamp as they were
C12_CachedGetter == []GetterStepRecorded /\ []ReadsAccounted /\ [][GetterStep]_vars

\* a getter was called on a slot holding 0 while another slot was still null
C12_Witness ==
    /\ lastCall.op = "getter"
    /\ lastCall.step = "call"
    /\ lastCall.cacheBefore[lastCall.key] = <<0>>
    /\ lastCall.returned = <<0>>
    /\ \E other \in CacheKeys : lastCall.cacheAfter[other] = <<>>

\* C13: a successful synchronizeStateAndUpdateHistory issues exactly three remote
\* reads, also when every slot of the cache is populated, and leaves the three slots
\* equal to the values just fetched and lastSyncTimestamp set to the time at which
\* the third read was answered
C13_SynchronizeReadsAll ==
    (lastCall.op = "synchronize" /\ lastCall.kind = "ok") =>
        /\ Len(lastCall.resps) = 3
        /\ lastCall.cacheAfter.sharePriceBeans = <<Carried(lastCall.resps[1])>>
        /\ lastCall.cacheAfter.shareOwnedCount = <<Carried(lastCall.resps[2])>>
        /\ lastCall.cacheAfter.walletBeans = <<Carried(lastCall.resps[3])>>
        /\ lastCall.cacheAfter.lastSyncTimestamp = <<lastCall.at>>

\* a synchronization succeeded on a fully populated cache and fetched another price
\* and another owned count than those cached
C13_Witness ==
    /\ lastCall.op = "synchronize"
    /\ lastCall.kind = "ok"
    /\ \A key \in CacheKeys : lastCall.cacheBefore[key] # <<>>
    /\ lastCall.cacheAfter.sharePriceBeans # lastCall.cacheBefore.sharePriceBeans
    /\ lastCall.cacheAfter.shareOwnedCount # lastCall.cacheBefore.shareOwnedCount

\* C14: the price, owned count and wallet the decision policy is handed in a cycle
\* are the three values that cycle's synchronization fetched (they are the cache
\* slots when the policy is entered)
C14_PolicySeesFetchedState ==
    pc = "decide" =>
        /\ currentState[1].sharePriceBeans = cachedState.sharePriceBeans[1]
        /\ currentState[1].shareOwnedCount = cachedState.shareOwnedCount[1]
        /\ currentState[1].walletBeans = cachedState.walletBeans[1]

\* the snapshot stored last
LatestSnapshot(rows) == rows[Len(rows)]

\* C15: a successful synchronization appends one snapshot, of the values fetched, if
\* the store is empty or the price fetched differs from the price of the latest
\* snapshot, and appends nothing otherwise; no two consecutive snapshots of the
\* history have the same price
C15_AppendOnPriceChange ==
    /\ (lastCall.op = "synchronize" /\ lastCall.kind = "ok") =>
           LET before == lastCall.historyBefore
               after == lastCall.historyAfter
               price == Carried(lastCall.resps[1])
               changed == before = <<>> \/ LatestSnapshot(before).sharePriceBeans # price
           IN  /\ changed =>
                      /\ Len(after) = Len(before) + 1
                      /\ SubSeq(after, 1, Len(before)) = before
                      /\ LatestSnapshot(after).sharePriceBeans = price
               /\ ~changed => after = before
    /\ \A i \in 1..(Len(history) - 1) :
           history[i].sharePriceBeans # history[i + 1].sharePriceBeans

\* on the stored prices 40, 100 two synchronizations in a row fetched 40: the first,
\* whose price differs from the latest snapshot and equals the first, appended the
\* one snapshot there is of it, the second appended nothing
C15_Witness ==
    /\ lastCall.op = "synchronize"
    /\ lastCall.kind = "ok"
    /\ Len(lastCall.historyBefore) = 3
    /\ lastCall.historyBefore[1].sharePriceBeans = 40
    /\ lastCall.historyBefore[2].sharePriceBeans = 100
    /\ lastCall.historyBefore[3].sharePriceBeans = 40
    /\ lastCall.historyBefore[3].timestamp = lastCall.cacheBefore.lastSyncTimestamp[1]
    /\ Carried(lastCall.resps[1]) = 40
    /\ history = lastCall.historyBefore

----------------------------------------------------------------------------
(* Properties of compileMarketSummary and calculateThresholds, read off    *)
(* the last direct call and the table it was made on                       *)

\* the snapshots of the history within the period of the summary compiled last
InWindow ==
    {i \in 1..Len(history) :
         /\ lastCall.summary.periodStart <= history[i].timestamp
         /\ history[i].timestamp <= lastCall.summary.periodEnd}

RECURSIVE SumOfPricesAt(_)
SumOfPricesAt(indices) ==
    IF indices = {} THEN 0
    ELSE LET i == CHOOSE j \in indices : TRUE
         IN  history[i].sharePriceBeans + SumOfPricesAt(indices \ {i})

\* a number of the code is 0, is the integer n
IsZero(number) == number = DoubleZero
IsInteger(number, n) == number = DoubleOf(n)

\* the double number is num / den, den > 0, as near as a double comes: within half
\* a unit of its last bit
IsQuotient(number, num, den) ==
    LET scaled == BigNormal(BigTimesLimb(number.mantissa, den, 0))
        target == BigShiftLeft(BigOf(num), - number.exponent)
        error == IF BigLess(scaled, target) THEN BigSub(target, scaled)
                 ELSE BigSub(scaled, target)
    IN  IF num = 0 THEN number = DoubleZero
        ELSE /\ number.sign = 1
             /\ BigLength(number.mantissa) = MantissaBits
             /\ number.exponent <= 0
             /\ ~BigLess(BigOf(den), BigNormal(BigTimesLimb(error, 2, 0)))

\* stdDev < 1: a number that is 0, or whose bits all lie behind the point
BelowOne(number) ==
    /\ number # DoubleNaN
    /\ number.mantissa # <<>> => number.sign = 1 /\ number.exponent + MantissaBits <= 0

\* floor(mean - diff), floor(mean + diff) for an integer diff, and
\* floor(mean - K * stdDev), floor(mean + K * stdDev), of the numbers of the summary
\* as they are, nothing rounded before the floor is taken
FloorMinus(mean, diff) == DoubleFloor(DoubleSum(mean, DoubleOf(- diff)))
FloorPlus(mean, diff) == DoubleFloor(DoubleSum(mean, DoubleOf(diff)))
TimesFactor(sign, number) ==
    Double(sign * number.sign, BigNormal(BigTimesLimb(number.mantissa, K_FACTOR, 0)),
           number.exponent)
FloorMinusSpread(summary) ==
    DoubleFloor(DoubleSum(summary.avgSharePriceBeans,
                          TimesFactor(-1, summary.stdDevSharePriceBeans)))
FloorPlusSpread(summary) ==
    DoubleFloor(DoubleSum(summary.avgSharePriceBeans,
                          TimesFactor(1, summary.stdDevSharePriceBeans)))

\* C16: the summary of a period holding fewer than 2 snapshots (none or one) has
\* stdDevSharePriceBeans = 0
C16_StdDevOfFewSnapshots ==
    (lastCall.op = "compileMarketSummary" /\ Cardinality(InWindow) < 2) =>
        IsZero(lastCall.summary.stdDevSharePriceBeans)

\* a period holding exactly one snapshot, of a table holding more, was summarised
C16_Witness ==
    /\ lastCall.op = "compileMarketSummary"
    /\ Cardinality(InWindow) = 1
    /\ Len(history) > 1
    /\ lastCall.summary.minSharePriceBeans > 0

\* C17: compileMarketSummary(start, end) aggregates exactly the snapshots with
\* start <= timestamp <= end: entryCount is their number, min, max and mean are the
\* least, the greatest and the average of their prices; when they all have one price
\* p (and there is one at least), min = max = mean = p, stdDev = 0 and
\* calculateThresholds takes the fixed-spread branch: floor(p - 5) clamped to 1,
\* and floor(p + 5)
C17_SummaryOfPeriod ==
    /\ lastCall.op = "compileMarketSummary" =>
           LET summary == lastCall.summary
           IN  /\ summary.entryCount = Cardinality(InWindow)
               /\ InWindow # {} =>
                      /\ \E i \in InWindow :
                             summary.minSharePriceBeans = history[i].sharePriceBeans
                      /\ \A i \in InWindow :
                             summary.minSharePriceBeans <= history[i].sharePriceBeans
                      /\ \E i \in InWindow :
                             summary.maxSharePriceBeans = history[i].sharePriceBeans
                      /\ \A i \in InWindow :
                             summary.maxSharePriceBeans >= history[i].sharePriceBeans
                      /\ IsQuotient(summary.avgSharePriceBeans, SumOfPricesAt(InWindow),
                                    Cardinality(InWindow))
               /\ \A p \in SummaryPrices :
                      (InWindow # {} /\ \A i \in InWindow : history[i].sharePriceBeans = p)
                          => /\ summary.minSharePriceBeans = p
                             /\ summary.maxSharePriceBeans = p
                             /\ IsInteger(summary.avgSharePriceBeans, p)
                             /\ IsZero(summary.stdDevSharePriceBeans)
    /\ lastCall.op = "calculateThresholds" =>
           \A p \in SummaryPrices :
               (InWindow # {} /\ \A i \in InWindow : history[i].sharePriceBeans = p)
                   => /\ lastCall.thresholds.buyThreshold
                             = Max(1, p - MIN_STD_DEV_THRESHOLD_DIFF)
                      /\ lastCall.thresholds.sellThreshold = p + MIN_STD_DEV_THRESHOLD_DIFF

\* thresholds were computed for a period that ends at the time of a snapshot, leaves
\* a snapshot out and holds several snapshots, all of price 40
C17_Witness ==
    /\ lastCall.op = "calculateThresholds"
    /\ Cardinality(InWindow) > 1
    /\ Cardinality(InWindow) < Len(history)
    /\ \E i \in InWindow : history[i].timestamp = lastCall.summary.periodEnd
    /\ \A i \in InWindow : history[i].sharePriceBeans = 40
    /\ lastCall.thresholds.buyThreshold = 35
    /\ lastCall.thresholds.sellThreshold = 45

\* C18 as stated: with stdDev < 1 the thresholds are 2 * MIN_STD_DEV_THRESHOLD_DIFF
\* apart for every mean; with stdDev >= 1 they are floor(mean - K * stdDev) and
\* floor(mean + K * stdDev)
C18_SpreadAlwaysExact ==
    lastCall.op = "calculateThresholds" =>
        LET summary == lastCall.summary
            thresholds == lastCall.thresholds
        IN  IF BelowOne(summary.stdDevSharePriceBeans)
            THEN thresholds.sellThreshold - thresholds.buyThreshold
                     = 2 * MIN_STD_DEV_THRESHOLD_DIFF
            ELSE /\ thresholds.buyThreshold = FloorMinusSpread(summary)
                 /\ thresholds.sellThreshold = FloorPlusSpread(summary)

\* C18: with stdDev < 1 the thresholds are floor(mean - 5), raised to 1 when it is
\* less, and floor(mean + 5), hence 10 apart when mean >= 6; with stdDev >= 1 they
\* are floor(mean - K * stdDev), raised to 1 when it is less, and
\* floor(mean + K * stdDev)
C18_SpreadUnlessClamped ==
    lastCall.op = "calculateThresholds" =>
        LET summary == lastCall.summary
            thresholds == lastCall.thresholds
            mean == summary.avgSharePriceBeans
        IN  IF BelowOne(summary.stdDevSharePriceBeans)
            THEN /\ thresholds.buyThreshold
                        = Max(1, FloorMinus(mean, MIN_STD_DEV_THRESHOLD_DIFF))
                 /\ thresholds.sellThreshold = FloorPlus(mean, MIN_STD_DEV_THRESHOLD_DIFF)
                 /\ FloorMinus(mean, MIN_STD_DEV_THRESHOLD_DIFF) >= 1 =>
                        thresholds.sellThreshold - thresholds.buyThreshold
                            = 2 * MIN_STD_DEV_THRESHOLD_DIFF
            ELSE /\ thresholds.buyThreshold = Max(1, FloorMinusSpread(summary))
                 /\ thresholds.sellThreshold = FloorPlusSpread(summary)

\* thresholds were computed from the nine snapshots whose deviation is rounded
\* below 1, their mean being 15 / 9: they are 1 and 6
C18_Witness ==
    /\ lastCall.op = "calculateThresholds"
    /\ lastCall.summary.entryCount = Len(RoundedPrices)
    /\ BelowOne(lastCall.summary.stdDevSharePriceBeans)
    /\ ~IsZero(lastCall.summary.stdDevSharePriceBeans)
    /\ IsQuotient(lastCall.summary.avgSharePriceBeans, SumOf(RoundedPrices),
                  Len(RoundedPrices))
    /\ lastCall.thresholds.buyThreshold = 1
    /\ lastCall.thresholds.sellThreshold = 6

\* C19: calculateThresholds reports isValid = false if and only if the buyThreshold
\* it returns (clamped to 1 at least) is greater than or equal to the sellThreshold
\* it returns
C19_ValidIffBuyBelowSell ==
    lastCall.op = "calculateThresholds" =>
        ((lastCall.thresholds.isValid = FALSE)
             <=> (lastCall.thresholds.buyThreshold >= lastCall.thresholds.sellThreshold))

\* thresholds were reported invalid: the clamp raised the buy threshold to the sell
\* threshold
C19_Witness ==
    /\ lastCall.op = "calculateThresholds"
    /\ lastCall.thresholds.isValid = FALSE
    /\ lastCall.thresholds.buyThreshold = 1
    /\ lastCall.thresholds.sellThreshold = 1

----------------------------------------------------------------------------
(* Properties of the threshold policy, read off the decision of the cycle  *)

\* C20: when performTradeCycleSmart reaches its decision, a buy has a quantity from
\* 1 to floor((walletBeans - MINIMUM_BEAN_RESERVE) / currentPrice), a sell a
\* quantity from 1 to ownedShares - MINIMUM_SHARE_RESERVE and a hold the quantity 0;
\* executeTrade is entered only with the decided action and a quantity above 0
C20_SmartQuantityBounds ==
    lastCall.op = "performTradeCycleSmart" =>
        /\ lastCall.decided =>
               /\ lastCall.decision.actionType \in {"buy", "sell", "hold"}
               /\ lastCall.decision.actionType = "buy" =>
                      /\ lastCall.decision.shareCount >= 1
                      /\ lastCall.decision.shareCount * lastCall.currentPrice
                             <= lastCall.walletBeans - MINIMUM_BEAN_RESERVE
               /\ lastCall.decision.actionType = "sell" =>
                      /\ lastCall.decision.shareCount >= 1
                      /\ lastCall.decision.shareCount
                             <= lastCall.ownedShares - MINIMUM_SHARE_RESERVE
               /\ lastCall.decision.actionType = "hold" =>
                      lastCall.decision.shareCount = 0
        /\ TradeStarted =>
               /\ lastCall.decided
               /\ exec.actionType = lastCall.decision.actionType
               /\ exec.totalShares = lastCall.decision.shareCount
               /\ exec.totalShares > 0

\* a cycle whose wallet affords one share above the bean reserve bought that share
C20_Witness ==
    /\ lastCall.op = "performTradeCycleSmart"
    /\ lastCall.decision.actionType = "buy"
    /\ lastCall.decision.shareCount = 1
    /\ lastCall.walletBeans - MINIMUM_BEAN_RESERVE < 2 * lastCall.currentPrice
    /\ result.returned
    /\ result.actionType = "buy"
    /\ result.totalShares = 1
    /\ result.tradeCompleted

----------------------------------------------------------------------------
(* Properties of the band policy *)

IsBandCall == lastCall.op = "decideNextTrade"

\* Math.floor(walletBeans / currentPrice): the units the balance pays for
AffordableUnits == lastCall.walletBeans \div lastCall.currentPrice

\* count times the fraction percent / 100, rounded down
RoundedDown(count, percent) == (count * percent) \div 100

\* C21: the band policy decides a buy of at least 1 and at most
\* floor(balance / price) units, a sell of at least 1 and at most the owned
\* units, and a hold of 0 units, whatever the price, the owned units and the
\* balance.
C21_BandQuantityBounds ==
    IsBandCall =>
        LET decision == lastCall.decision
        IN  /\ decision.actionType = "buy" =>
                (decision.shareCount >= 1 /\ decision.shareCount <= AffordableUnits)
            /\ decision.actionType = "sell" =>
                (decision.shareCount >= 1 /\ decision.shareCount <= lastCall.shareCount)
            /\ decision.actionType = "hold" => decision.shareCount = 0

\* the fraction, in percent, of the band a buy price lies in
BuyBandPercent(price) ==
    IF price <= 40 THEN 95
    ELSE IF price <= 65 THEN 80
    ELSE IF price <= 80 THEN 50
    ELSE IF price <= 95 THEN 25
    ELSE 5

\* the fraction, in percent, of the band a sell price lies in
SellBandPercent(price) ==
    IF price >= 150 THEN 99
    ELSE IF price >= 140 THEN 95
    ELSE IF price >= 130 THEN 80
    ELSE IF price >= 120 THEN 70
    ELSE IF price >= 110 THEN 25
    ELSE 10

\* C25: the quantity of a decided buy or sell is the count the policy sizes it
\* from (the count decideNextTrade multiplies), times the fraction of the band
\* that contains the price, rounded down: sells 0.1 in [100,110), 0.25 in
\* [110,120), 0.70 in [120,130), 0.80 in [130,140), 0.95 in [140,150), 0.99
\* from 150; buys 0.95 up to 40, 0.8 in (40,65], 0.5 in (65,80], 0.25 in
\* (80,95], 0.05 in (95,100].
C25_BandFractions ==
    IsBandCall =>
        LET decision == lastCall.decision
        IN  /\ decision.actionType = "buy" =>
                /\ lastCall.currentPrice <= 100
                /\ decision.shareCount =
                       RoundedDown(lastCall.shareCount, BuyBandPercent(lastCall.currentPrice))
            /\ decision.actionType = "sell" =>
                /\ lastCall.currentPrice >= 100
                /\ decision.shareCount =
                       RoundedDown(AffordableUnits, SellBandPercent(lastCall.currentPrice))

----------------------------------------------------------------------------
(* Properties of the threshold policy *)

\* max(1, min(floor(count * fraction), count)), the fraction in percent
ClampedFraction(count, percent) == Max(1, Min(RoundedDown(count, percent), count))

\* the decision of a call follows the formula for the reserves and the
\* fraction given
QuantityFollowsFormula(beanReserve, shareReserve, percent) ==
    LET affordable == (lastCall.walletBeans - beanReserve) \div lastCall.currentPrice
        sellable == lastCall.ownedShares - shareReserve
    IN  /\ (lastCall.currentPrice < lastCall.buyThreshold /\ affordable > 0) =>
              lastCall.decision =
                  [actionType |-> "buy", shareCount |-> ClampedFraction(affordable, percent)]
        /\ (lastCall.currentPrice >= lastCall.buyThreshold
              /\ lastCall.currentPrice > lastCall.sellThreshold /\ sellable > 0) =>
              lastCall.decision =
                  [actionType |-> "sell", shareCount |-> ClampedFraction(sellable, percent)]

\* C22: when the price is below buyThreshold and affordable =
\* floor((balance - reserve) / price) > 0, the threshold policy buys exactly
\* max(1, min(floor(affordable * fraction), affordable)) units, and it sizes a
\* sell by the same formula over owned - share reserve; strategy-smart.ts with
\* its reserves 180 and 3 and fraction 0.75, the earlier file with 300, 10 and
\* 0.15, where balance 1000 at price 50 gives affordable 14 and a buy of 2.
C22_ThresholdQuantity ==
    /\ lastCall.op = "thresholdDecision" => QuantityFollowsFormula(180, 3, 75)
    /\ lastCall.op = "thresholdDecision_000" =>
        /\ QuantityFollowsFormula(300, 10, 15)
        /\ (lastCall.walletBeans = 1000 /\ lastCall.currentPrice = 50
              /\ lastCall.currentPrice < lastCall.buyThreshold) =>
               /\ (lastCall.walletBeans - 300) \div lastCall.currentPrice = 14
               /\ lastCall.decision = [actionType |-> "buy", shareCount |-> 2]

\* the scenario of the claim is decided, and a sell is sized by the formula too
C22_Witness ==
    /\ lastCall.op = "thresholdDecision_000"
    /\ lastCall.walletBeans = 1000
    /\ lastCall.currentPrice = 50
    /\ lastCall.currentPrice < lastCall.buyThreshold
    /\ lastCall.decision = [actionType |-> "buy", shareCount |-> 2]

IsSmartCall == lastCall.op = "performTradeCycleSmart"

\* the lookback summary of the cycle has too few entries
InsufficientData == IsSmartCall /\ lastCall.entryCount < 12

\* the lookback summary has entries enough and the thresholds computed are invalid
InvalidThresholds == IsSmartCall /\ lastCall.entryCount >= 12 /\ ~lastCall.decided

\* the price is below buyThreshold and the balance above the reserve pays for no unit
Unaffordable ==
    /\ IsSmartCall
    /\ lastCall.decided
    /\ lastCall.currentPrice < lastCall.thresholds.buyThreshold
    /\ (lastCall.walletBeans - 180) \div lastCall.currentPrice <= 0

\* the price is above sellThreshold and no unit is owned above the reserve
Unsellable ==
    /\ IsSmartCall
    /\ lastCall.decided
    /\ lastCall.currentPrice >= lastCall.thresholds.buyThreshold
    /\ lastCall.currentPrice > lastCall.thresholds.sellThreshold
    /\ lastCall.ownedShares - 3 <= 0

\* the cycle has returned: no order was submitted, no trade stored, nothing raised
ReturnedWithoutTrading ==
    /\ pc = "cycle_end"
    /\ raised = "none"
    /\ exec = NoExec
    /\ trace = <<>>
    /\ tradeTable = <<>>
    /\ fetches = 3

\* C23: a cycle of the threshold policy whose lookback summary has fewer than
\* MIN_DATA_POINTS_FOR_LOOKBACK entries, or whose thresholds are invalid, or whose
\* affordable or sellable amount is not positive, submits no order, stores no
\* trade and returns without raising.
C23_CannotProceedReturns ==
    (InsufficientData \/ InvalidThresholds \/ Unaffordable \/ Unsellable)
        => ReturnedWithoutTrading

\* a cycle with too few entries in the lookback summary has returned
C23_Witness == InsufficientData /\ lastCall.currentPrice = 40 /\ ReturnedWithoutTrading

\* a trade stored by buyShares, by sellShares
IsBuyRow(row) == row.shareBoughtCount > 0
IsSellRow(row) == row.shareSoldCount > 0

\* the cycle has sold, or is selling
CycleSells ==
    \/ exec.actionType = "sell"
    \/ \E i \in 1..Len(tradeTable) : IsSellRow(tradeTable[i])
    \/ \E i \in Indices : IsOrder(trace[i]) /\ trace[i].act = "sell"

\* the cycle has bought, or is buying
CycleBuys ==
    \/ exec.actionType = "buy"
    \/ \E i \in 1..Len(tradeTable) : IsBuyRow(tradeTable[i])
    \/ \E i \in Indices : IsOrder(trace[i]) /\ trace[i].act = "buy"

\* the buy condition of the threshold policy holds in the cycle
BuyCondition ==
    IsSmartCall /\ lastCall.decided /\ lastCall.currentPrice < lastCall.thresholds.buyThreshold

\* a step that enters executeTrade
EntersExecuteTrade == exec.actionType = "none" /\ exec'.actionType # "none"

\* C24: in one cycle, of the band policy or of the threshold policy, executeTrade
\* is entered at most once (only by the decision step, nothing traded before it
\* in the cycle, and the trade keeps its action and its total), so the cycle
\* buys or sells, never both; in the threshold policy a cycle whose price is
\* below buyThreshold never sells, even when nothing is bought, and one that
\* sells has a price not below buyThreshold.
C24_OneTradePerCycle ==
    /\ [](~(CycleBuys /\ CycleSells))
    /\ []((BuyCondition => ~CycleSells)
            /\ ((IsSmartCall /\ lastCall.decision.actionType = "sell") => ~BuyCondition))
    /\ [][/\ EntersExecuteTrade =>
                 (pc \in {"decide", "smart_decide"} /\ trace = <<>> /\ tradeTable = <<>>
                    /\ ~result.returned)
          /\ (exec.actionType # "none") =>
                 (exec'.actionType = exec.actionType /\ exec'.totalShares = exec.totalShares)
         ]_vars

\* a cycle of the threshold policy below buyThreshold that could pay for nothing
\* and owned units above the reserve has returned without selling
C24_Witness ==
    /\ BuyCondition
    /\ lastCall.decision.actionType = "hold"
    /\ lastCall.ownedShares > 3
    /\ pc = "cycle_end"
    /\ ~CycleSells

----------------------------------------------------------------------------
(* Properties of runTradingLoop *)

\* synchronization failed in the cycle: it returned no row
SyncFailed == currentState = <<>> /\ pc \in {"cycle_end", "exited"}

\* nothing was ordered in the cycle
NothingOrdered == exec = NoExec /\ trace = <<>> /\ ~result.returned

\* C26: a RateLimitError or a RequestError that ends a cycle of runTradingLoop,
\* the ones of synchronization included, ends that cycle only: nothing was
\* ordered in it, the process goes on, and the loop sleeps and is back at the
\* start of a cycle; an error of another kind leaves the loop and ends the
\* process, which takes no further step.
C26_RecoverableErrorsEndTheCycle ==
    /\ []((raised \in {"RateLimitError", "RequestError"}) =>
              (pc \in {"cycle_end", "cycle"} /\ NothingOrdered))
    /\ []((SyncFailed /\ raised = "none") => (pc = "cycle_end" /\ NothingOrdered))
    /\ []((raised \notin {"none", "RateLimitError", "RequestError"}) <=> pc = "exited")
    /\ [][/\ pc = "cycle_end" =>
                 (pc' = "cycle" /\ clock' >= clock + MINIMUM_CYCLE_SLEEP_MS
                    /\ cyclesLeft' = cyclesLeft)
          /\ pc # "exited"
         ]_vars

\* the loop has slept after a cycle that a RequestError ended, and another cycle
\* is to come
C26_Witness ==
    /\ raised = "RequestError"
    /\ pc = "cycle"
    /\ cyclesLeft > 0
    /\ clock >= TRADE_CYCLE_INTERVAL

\* a step that starts a cycle
CycleStarts == cyclesLeft' = cyclesLeft - 1

\* the cycle before has returned, or raised an error the loop caught
CycleIsOver ==
    /\ exec = NoExec \/ result.returned
    /\ raised \in {"none", "RateLimitError", "RequestError"}

\* C27: one cycle at a time: runTradingLoop starts a cycle only when the cycle
\* before has returned or raised and the sleep that follows it has elapsed (at
\* least 100 ms after its end, at least TRADE_CYCLE_INTERVAL after its start),
\* and during that sleep nothing touches the rate tracker, the state cache or
\* the tables.
C27_OneCycleAtATime ==
    /\ []((pc \in {"cycle_end", "cycle"}) => CycleIsOver)
    /\ [][/\ CycleStarts =>
                 /\ pc = "cycle"
                 /\ CycleIsOver
                 /\ clock = 0 \/ clock >= startTime + TRADE_CYCLE_INTERVAL
          /\ (pc' = "cycle") =>
                 /\ pc = "cycle_end"
                 /\ clock' >= clock + MINIMUM_CYCLE_SLEEP_MS
                 /\ clock' >= startTime + TRADE_CYCLE_INTERVAL
                 /\ UNCHANGED <<previousRequestTimestamps, cachedState, history, tradeTable>>
         ]_vars

\* the second cycle trades, after the first has traded and returned
C27_Witness ==
    /\ cyclesLeft = 0
    /\ pc = "trade_loop"
    /\ clock >= TRADE_CYCLE_INTERVAL
    /\ tradeTable # <<>>
    /\ tradeTable[1].timestamp < TRADE_CYCLE_INTERVAL
    /\ trace # <<>>

----------------------------------------------------------------------------
(* Properties of the trade store *)

\* the units a stored trade moved
RowUnits(row) == row.shareBoughtCount + row.shareSoldCount

RECURSIVE SumOfUnits(_)
SumOfUnits(rows) == IF rows = <<>> THEN 0 ELSE RowUnits(Head(rows)) + SumOfUnits(Tail(rows))

\* C28: while executeTrade runs, one trade is stored for each chunk whose order
\* succeeded, with the units of that chunk, and none for a chunk that failed: as
\* many trades are stored as chunks succeeded (three when an order of 450 is
\* completed), and their units add up to totalShares - remainingShares.
C28_OneRecordPerSuccessfulChunk ==
    /\ Len(tradeTable) = Len(OkOrders)
    /\ \A i \in 1..Len(tradeTable) :
           /\ i <= Len(OkOrders)
           /\ RowUnits(tradeTable[i]) = OkOrders[i].n
           /\ OkOrders[i].act = "buy" => tradeTable[i].shareBoughtCount = OkOrders[i].n
           /\ OkOrders[i].act = "sell" => tradeTable[i].shareSoldCount = OkOrders[i].n
    /\ TradeStarted => SumOfUnits(tradeTable) = exec.totalShares - exec.remainingShares
    /\ (result.returned /\ result.tradeCompleted /\ result.totalShares = 450) =>
           Len(tradeTable) = 3

\* a sell of 450 was completed in three chunks, one of which failed before
C28_Witness ==
    /\ result.returned
    /\ result.tradeCompleted
    /\ result.actionType = "sell"
    /\ result.totalShares = 450
    /\ Len(tradeTable) = 3
    /\ SumOfUnits(tradeTable) = 450
    /\ Len(Orders) > 3

\* a step in which buyShares or sellShares returned: a trade was stored
TradeStored == Len(tradeTable') = Len(tradeTable) + 1

\* the trade stored by the step
StoredRow == tradeTable'[Len(tradeTable')]

\* C30: a step in which an order of n units succeeds at the cached price p
\* leaves in the cache owned + n and balance - n * p after a buy, owned - n and
\* balance + n * p after a sell, the price slot and the time of the last
\* synchronization as they were, and makes no remote call but the order; the
\* trade stored has walletOldBeans = the balance before, walletNewBeans = the
\* balance after, shareOwnedCount = the count before and the price p.
C30_OrderUpdatesCache ==
    [][TradeStored =>
         LET n == RowUnits(StoredRow)
             p == cachedState.sharePriceBeans[1]
             owned == cachedState.shareOwnedCount[1]
             balance == cachedState.walletBeans[1]
         IN  /\ exec.actionType = "buy" =>
                 /\ StoredRow.shareBoughtCount = n /\ StoredRow.shareSoldCount = 0
                 /\ cachedState'.shareOwnedCount = <<owned + n>>
                 /\ cachedState'.walletBeans = <<balance - n * p>>
             /\ exec.actionType = "sell" =>
                 /\ StoredRow.shareSoldCount = n /\ StoredRow.shareBoughtCount = 0
                 /\ cachedState'.shareOwnedCount = <<owned - n>>
                 /\ cachedState'.walletBeans = <<balance + n * p>>
             /\ exec.actionType \in {"buy", "sell"}
             /\ n = chunkSize(exec.remainingShares)
             /\ cachedState'.sharePriceBeans = cachedState.sharePriceBeans
             /\ cachedState'.lastSyncTimestamp = cachedState.lastSyncTimestamp
             /\ fetches' = fetches + 1
             /\ StoredRow.sharePriceBeans = p
             /\ StoredRow.shareOwnedCount = owned
             /\ StoredRow.walletOldBeans = balance
             /\ StoredRow.walletNewBeans = cachedState'.walletBeans[1]
             /\ SubSeq(tradeTable', 1, Len(tradeTable)) = tradeTable
      ]_vars

\* two chunks of a buy of 450 at price 40 have succeeded: the cache holds 400
\* units more and 16000 beans less than synchronization stored
C30_Witness ==
    /\ exec.actionType = "buy"
    /\ exec.totalShares = 450
    /\ Len(tradeTable) = 2
    /\ currentState # <<>>
    /\ cachedState.shareOwnedCount = <<currentState[1].shareOwnedCount + 400>>
    /\ cachedState.walletBeans = <<currentState[1].walletBeans - 16000>>
    /\ tradeTable[2].walletOldBeans = currentState[1].walletBeans - 8000
    /\ tradeTable[2].walletNewBeans = currentState[1].walletBeans - 16000

\* C29: every trade in the trade store has exactly one of shareBoughtCount and
\* shareSoldCount other than zero, whatever share count buyShares or sellShares
\* was called with and did not refuse.
C29_ExactlyOneCountNonZero ==
    \A i \in 1..Len(tradeTable) :
        (tradeTable[i].shareBoughtCount # 0) # (tradeTable[i].shareSoldCount # 0)

\* the cycle of the threshold policy has returned from executeTrade
SmartCycleTraded == IsSmartCall /\ lastCall.executes /\ result.returned

\* C31: the threshold policy never trades below its reserves: after a cycle that
\* bought the cached balance is at least MINIMUM_BEAN_RESERVE, and after a cycle
\* that sold the cached owned count is at least MINIMUM_SHARE_RESERVE.
C31_ReservesKept ==
    /\ (SmartCycleTraded /\ \E i \in 1..Len(tradeTable) : IsBuyRow(tradeTable[i])) =>
           cachedState.walletBeans[1] >= MINIMUM_BEAN_RESERVE
    /\ (SmartCycleTraded /\ \E i \in 1..Len(tradeTable) : IsSellRow(tradeTable[i])) =>
           cachedState.shareOwnedCount[1] >= MINIMUM_SHARE_RESERVE

\* executeTrade has returned after a price read that followed a backoff and
\* found a price different from the reference price
AbortedOnPriceChange ==
    /\ result.returned
    /\ Len(trace) > 0
    /\ trace[Len(trace)].ev = "price_read"
    /\ trace[Len(trace)].out = "ok"
    /\ trace[Len(trace)].n # result.initialPrice

\* C33: when executeTrade aborts because the price read after a rate-limit backoff
\* differs from the reference price, finalPrice of the result is that newly read
\* price.
C33_FinalPriceIsNewPrice ==
    AbortedOnPriceChange => result.finalPrice = trace[Len(trace)].n

\* a cache slot holds a negative number
NegativeSlot(slot) == slot # <<>> /\ slot[1] < 0

\* buyShares refused a chunk before sending it: the trade raised an Error although
\* no remote call of the trade failed
NotEnoughBeans == TradeStarted /\ exec.actionType = "buy" /\ raised = "Error" /\ AllSuccess

\* C37: in a cycle of the band policy in which the remote accepts every order it is
\* sent, the cached balance and the cached owned count are never negative and
\* buyShares never raises its 'not enough beans' error.
C37_BandStaysSolvent ==
    AllSuccess =>
        /\ ~NegativeSlot(cachedState.walletBeans)
        /\ ~NegativeSlot(cachedState.shareOwnedCount)
        /\ ~NotEnoughBeans

\* the orders of a trace whose call succeeded
OkOrdersOf(events) == SelectSeq(events, IsOkOrder)

\* totalShares = remainingShares + the sizes of the chunks whose order succeeded
SharesAccounted ==
    TradeStarted => exec.totalShares = exec.remainingShares + SumOfSizes(OkOrders)

\* a step inside one executeTrade
TradeStep == TradeStarted /\ TradeStarted'

\* this step is a step of the loop in which no chunk succeeded: the chunk failed,
\* was refused, or the step is a sleep
ChunkFailedStep ==
    /\ pc \in {"trade_loop", "trade_order", "trade_delay", "trade_backoff"}
    /\ exec.remainingShares > 0
    /\ Len(OkOrdersOf(trace')) = Len(OkOrdersOf(trace))

\* remainingShares never increases, changes only with a successful chunk, and a
\* failed chunk leaves the cache and the trade store alone
RemainingSharesStep ==
    TradeStep =>
        /\ exec'.totalShares = exec.totalShares
        /\ exec'.remainingShares <= exec.remainingShares
        /\ exec'.remainingShares # exec.remainingShares =>
               /\ Len(OkOrdersOf(trace')) = Len(OkOrdersOf(trace)) + 1
               /\ trace'[Len(trace')].ev = "order"
               /\ trace'[Len(trace')].out = "ok"
               /\ exec.remainingShares - exec'.remainingShares = trace'[Len(trace')].n
        /\ ChunkFailedStep => cachedState' = cachedState /\ tradeTable' = tradeTable

\* C36: throughout executeTrade, totalShares = remainingShares + the sizes of the
\* chunks whose order call succeeded; remainingShares never increases and changes
\* only on a successful chunk, and a failed chunk leaves the cache slots and the
\* trade store unchanged.
C36_SharesAccounted == []SharesAccounted /\ [][RemainingSharesStep]_vars

\* an order of several chunks went through a failed chunk and a successful one
C36_Witness ==
    /\ TradeStarted
    /\ Len(OkOrders) >= 2
    /\ Len(Orders) > Len(OkOrders)
    /\ exec.remainingShares > 0

\* the last thing executeTrade did
LastEvent == trace[Len(trace)]

\* the read of the price failed
PriceReadFailed == Len(trace) > 0 /\ LastEvent.ev = "price_read" /\ LastEvent.out # "ok"

\* in the trace a backoff sleep is followed by one read of the price and nothing
\* else, a read of the price follows a backoff sleep, and nothing follows a failed
\* read
OneReadAfterBackoff ==
    /\ \A i \in Indices :
        /\ (trace[i].ev = "backoff" /\ i < Len(trace)) => trace[i + 1].ev = "price_read"
        /\ trace[i].ev = "price_read" => (i > 1 /\ trace[i - 1].ev = "backoff")
        /\ (trace[i].ev = "price_read" /\ trace[i].out # "ok") => i = Len(trace)
    /\ pc = "trade_recheck" <=> (Len(trace) > 0 /\ LastEvent.ev = "backoff")

\* a failed read is not raised: the trade returns a partial result
FailedReadAborts ==
    PriceReadFailed =>
        /\ raised = "none"
        /\ pc \notin {"trade_loop", "trade_recheck", "exited"}
        /\ result.returned => (result.remainingShares > 0 /\ ~result.tradeCompleted)

\* the step after the backoff sleep: one request, the read of the price, and then
\* the decision
RecheckStep ==
    pc = "trade_recheck" =>
        /\ fetches' = fetches + 1
        /\ clock' = clock
        /\ Len(trace') = Len(trace) + 1
        /\ trace'[Len(trace')].ev = "price_read"
        /\ pc' \in {"trade_loop", "trade_return"}
        /\ trace'[Len(trace')].out # "ok" => pc' = "trade_return"

\* C34: after a rate-limit failure of a chunk, executeTrade makes exactly one remote
\* read, of the price, between the end of the backoff sleep and its decision to
\* retry or abort, and a failure of that read, of any kind, aborts the order with
\* a returned partial result instead of being retried.
C34_OneReadThenDecision ==
    /\ []OneReadAfterBackoff
    /\ []FailedReadAborts
    /\ [][RecheckStep]_vars

\* a trade returned a partial result after a chunk went through and the read of
\* the price after a later backoff failed with an error that is no RequestError
C34_Witness ==
    /\ result.returned
    /\ PriceReadFailed
    /\ LastEvent.out = "Error"
    /\ Len(OkOrders) >= 1

\* the slots synchronizeStateAndUpdateHistory reads, in the order of its reads
SyncReads == <<"sharePriceBeans", "shareOwnedCount", "walletBeans">>

\* the i-th read of the last synchronization failed
SyncReadFailed(i) == fetchValue(SyncReads[i], lastCall.resps[i]).kind # "ok"

\* the last direct call was a synchronization one of whose reads failed
SyncReadFailure ==
    /\ lastCall.op = "synchronize"
    /\ \E i \in 1..Len(lastCall.resps) : SyncReadFailed(i)

\* what the step of a synchronization recorded in lastCall tells: the failed read is
\* the last one issued, and the step that ends at the failed read writes nothing, nor
\* does a step that ends at a wait
FailedSyncRecorded ==
    /\ SyncReadFailure =>
           /\ \A i \in 1..Len(lastCall.resps) : SyncReadFailed(i) => i = Len(lastCall.resps)
           /\ lastCall.kind \notin {"ok", "await"}
           /\ lastCall.cacheAfter = lastCall.cacheBefore
           /\ lastCall.historyAfter = lastCall.historyBefore
           /\ cachedState = lastCall.cacheAfter
           /\ history = lastCall.historyAfter
    /\ (lastCall.op = "synchronize" /\ lastCall.kind = "await") =>
           /\ lastCall.cacheAfter = lastCall.cacheBefore
           /\ lastCall.historyAfter = lastCall.historyBefore
           /\ cachedState = lastCall.cacheAfter
           /\ history = lastCall.historyAfter

\* a step of a synchronization that does not return leaves the cache and the history
\* as they were; the step in which the synchronization throws issues no read and
\* leaves none of its reads in flight
FailedSyncStep ==
    (lastCall'.op = "synchronize" /\ lastCall' # lastCall /\ lastCall'.kind # "ok") =>
        /\ cachedState' = cachedState
        /\ history' = history
        /\ lastCall'.kind # "await" =>
               /\ fetches' = fetches
               /\ \A i \in 1..Len(pendingRequests') :
                      pendingRequests'[i].caller # "synchronize"

\* C35: if one of the three remote reads of synchronizeStateAndUpdateHistory fails,
\* the reads after it are not issued, no slot of the cache and not
\* lastSyncTimestamp is modified, and no history snapshot is appended, in the step
\* that throws and in every step of the synchronization before it
C35_FailedSyncChangesNothing == []FailedSyncRecorded /\ [][FailedSyncStep]_vars

\* a synchronization on a populated cache fetched a price other than the cached one
\* and failed on its second read
C35_Witness ==
    /\ SyncReadFailure
    /\ Len(lastCall.resps) = 2
    /\ lastCall.cacheBefore.sharePriceBeans # <<>>
    /\ lastCall.cacheBefore.sharePriceBeans # <<Carried(lastCall.resps[1])>>
    /\ lastCall.historyBefore # <<>>

\* the last direct call recorded is an attempt of the band policy's synchronization
IsSyncAttempt == lastCall.op = "performTradeCycle"

\* the cycle invoked synchronizeStateAndUpdateHistory once: the attempt recorded is
\* the first, and the cycle is past its synchronization loop
SynchronizedOnce ==
    /\ pc # "sync_retry"
    /\ IsSyncAttempt => lastCall.attempt = 1

\* a rate limit during synchronization has ended the cycle: nothing was raised
\* and nothing was ordered
RateLimitedSyncEndsCycle ==
    (IsSyncAttempt /\ lastCall.kind = "RateLimitError") =>
        /\ pc \in {"sync_sleep", "cycle_end", "cycle"}
        /\ raised = "none"
        /\ NothingOrdered

\* the synchronization of the cycle is under way: one or two of its three reads
\* are answered
SynchronizationRuns ==
    pc = "sync_read" <=> (IsSyncAttempt /\ lastCall.kind = "await")
ReadsAnswered ==
    /\ Len(syncLocals) < Len(SyncReads)
    /\ pc = "sync_read" <=> syncLocals # <<>>

\* a step of a cycle that synchronizes issues one read, the next of the three
\* reads of the one synchronization; a RateLimitError, and nothing else, goes to
\* the sleep of 60 seconds, after which the cycle is at its end with nothing
\* raised and no trade stored
SynchronizeStep ==
    /\ pc \in {"cycle", "sync_read"} =>
        /\ fetches' = fetches + 1
        /\ clock' = clock
        /\ pc' \in {"sync_read", "decide", "sync_sleep", "cycle_end", "exited"}
        /\ pc' = "sync_read" => Len(syncLocals') = Len(syncLocals) + 1
        /\ pc' = "decide" => Len(syncLocals) = Len(SyncReads) - 1
        /\ lastCall'.kind = "RateLimitError" <=> pc' = "sync_sleep"
    /\ pc = "sync_sleep" =>
        /\ clock' = clock + SYNC_RATE_LIMIT_DELAY_MS
        /\ pc' = "cycle_end"
        /\ fetches' = fetches
        /\ raised' = "none"
        /\ tradeTable' = tradeTable

\* C39: performTradeCycle of the band policy invokes
\* synchronizeStateAndUpdateHistory at most once per cycle: every outcome of the
\* first attempt leaves the loop of three attempts, and a RateLimitError ends the
\* cycle after a sleep of 60 seconds without raising and without submitting an
\* order.
C39_OneSynchronizationPerCycle ==
    /\ []SynchronizedOnce
    /\ []SynchronizationRuns
    /\ []ReadsAnswered
    /\ []RateLimitedSyncEndsCycle
    /\ [][SynchronizeStep]_vars

\* the second cycle of the loop was ended by a rate limit of its synchronization
\* after the first cycle had traded
C39_Witness ==
    /\ IsSyncAttempt
    /\ lastCall.kind = "RateLimitError"
    /\ pc = "cycle_end"
    /\ tradeTable # <<>>
    /\ clock >= TRADE_CYCLE_INTERVAL + SYNC_RATE_LIMIT_DELAY_MS

\* what a step appended to the trace
NewEvents == SubSeq(trace', Len(trace) + 1, Len(trace'))

\* buyShares refuses the chunk of this iteration before sending it: its cost
\* exceeds the cached balance
ChunkRefused ==
    /\ exec.actionType = "buy"
    /\ chunkSize(exec.remainingShares) * cachedState.sharePriceBeans[1]
           > cachedState.walletBeans[1]

\* the chunk of this iteration is submitted in this step, with a request sent now
\* and recorded after the request times counted, unless buyShares refuses it and
\* raises
ChunkSubmitted(counted) ==
    IF ChunkRefused
    THEN NewEvents = <<>> /\ raised' = "Error" /\ pc' = "exited"
    ELSE /\ Len(NewEvents) = 1
         /\ NewEvents[1].ev = "order"
         /\ NewEvents[1].n = chunkSize(exec.remainingShares)
         /\ NewEvents[1].rem = exec.remainingShares
         /\ previousRequestTimestamps' = Append(counted, clock)
         /\ fetches' = fetches + 1
         /\ clock' = clock

\* the proactive pause is over and the chunk is to be submitted: the pause is the
\* last thing the trade did
PausedBeforeOrder ==
    pc = "trade_order" =>
        /\ Len(trace) > 0
        /\ LastEvent.ev = "proactive"
        /\ LastEvent.rem = exec.remainingShares
        /\ exec.remainingShares > 0

\* an iteration of the loop of executeTrade: with a count at or above the limit
\* less the threshold it sleeps the proactive delay, once, with no request and
\* nothing else changed, and the step after the sleep submits the chunk, the
\* count not read again; below that count the chunk is submitted at once
ProactiveStep ==
    /\ (pc = "trade_loop" /\ exec.remainingShares > 0) =>
        IF getRequestsInLastMinute(previousRequestTimestamps, clock)
               >= MAXIMUM_REQUESTS_PER_MINUTE - PROACTIVE_RATE_LIMIT_THRESHOLD
        THEN /\ Len(NewEvents) = 1
             /\ NewEvents[1].ev = "proactive"
             /\ NewEvents[1].n = PROACTIVE_RATE_LIMIT_DELAY_MS
             /\ clock' = clock + PROACTIVE_RATE_LIMIT_DELAY_MS
             /\ pc' = "trade_order"
             /\ fetches' = fetches
             /\ UNCHANGED <<exec, cachedState, tradeTable, raised>>
        ELSE ChunkSubmitted(filterTimestamps(previousRequestTimestamps, clock))
    /\ pc = "trade_order" =>
        /\ ChunkSubmitted(previousRequestTimestamps)
        /\ pc' # "trade_order"

\* C32: on each iteration of executeTrade, if the recent call count of the rate
\* tracker is at least MAXIMUM_REQUESTS_PER_MINUTE - PROACTIVE_RATE_LIMIT_THRESHOLD,
\* it sleeps the fixed proactive delay exactly once and then still submits the
\* chunk in the same iteration; below that count it submits the chunk without
\* the proactive sleep.
C32_ProactivePause == []PausedBeforeOrder /\ [][ProactiveStep]_vars

\* an order of several chunks slept before its first chunk, sent it, and slept
\* again before the next
C32_Witness ==
    /\ Len(trace) >= 5
    /\ trace[1].ev = "proactive"
    /\ trace[2].ev = "order"
    /\ trace[2].out = "ok"
    /\ trace[3].ev = "chunk_delay"
    /\ trace[4].ev = "proactive"
    /\ trace[5].ev = "order"

\* the step of an iteration that submits the chunk strictly decreases
\* remainingShares, leaves the loop, or was rate-limited and goes to the backoff
\* sleep and from there to the read of the price, remainingShares unchanged; the
\* proactive pause before it and the delay after it change nothing of the trade
IterationStep ==
    /\ pc \in {"trade_loop", "trade_order"} =>
        \/ pc = "trade_loop" /\ pc' = "trade_order" /\ exec' = exec
        \/ exec'.remainingShares < exec.remainingShares /\ pc' \in {"trade_delay", "trade_loop"}
        \/ pc' \in {"trade_return", "cycle_end", "exited"}
        \/ /\ pc' = "trade_backoff"
           /\ exec' = exec
           /\ trace'[Len(trace')].ev = "order"
           /\ trace'[Len(trace')].out = "RateLimitError"
    /\ pc = "trade_delay" => (pc' = "trade_loop" /\ exec' = exec)
    /\ pc = "trade_backoff" =>
        /\ pc' = "trade_recheck"
        /\ exec'.remainingShares = exec.remainingShares
        /\ trace'[Len(trace')].ev = "backoff"

\* after the read of the price the chunk is retried only at an unchanged price,
\* otherwise the loop is left
RetryStep ==
    pc = "trade_recheck" =>
        \/ pc' = "trade_return"
        \/ /\ pc' = "trade_loop"
           /\ exec' = exec
           /\ trace'[Len(trace')].ev = "price_read"
           /\ trace'[Len(trace')].out = "ok"
           /\ trace'[Len(trace')].n = exec.initialPrice

\* C38: every executeTrade invocation eventually terminates, by returning or by
\* raising, provided every remote call and sleep eventually returns and the
\* remote does not answer the same chunk with a rate-limit failure forever; each
\* iteration of the loop either strictly decreases remainingShares, leaves the
\* loop, or is a rate-limit retry at unchanged price.
C38_TradeTerminates ==
    /\ TradeStarted ~> TradeOver
    /\ [][IterationStep /\ RetryStep]_vars

\* a trade of several chunks ended after a chunk had been rate-limited and retried
\* at an unchanged price
C38_Witness ==
    /\ TradeOver
    /\ exec.totalShares > MAXIMUM_SHARES_PER_ACTION
    /\ \E i \in Indices :
        /\ trace[i].ev = "price_read"
        /\ trace[i].out = "ok"
        /\ trace[i].n = exec.initialPrice
        /\ i < Len(trace)

====
